---- MODULE Spec2Model ----
(***************************************************************************)
(* Rehydration_Sigil: the glyph codec and algebra (GlyphMatics_Equations), *)
(* and the GNGM superparagraph container (AI_Encapsulator): v2 leaf frame, *)
(* v3 page frame, compress+CRC envelope and Braille armor.                  *)
(*                                                                         *)
(* Bytes are integers 0..255, byte strings are sequences of bytes, text is *)
(* a sequence of Unicode code points.  Offsets are 0-based as in the       *)
(* source; Slice and At translate them to TLA+'s 1-based sequences.        *)
(***************************************************************************)
EXTENDS Integers, Sequences, FiniteSets, TLC

\* ------------------------------------------------------------------------
\* Python sequence primitives
\* ------------------------------------------------------------------------

Min(a, b) == IF a <= b THEN a ELSE b

Max(a, b) == IF a >= b THEN a ELSE b

\* v[lo:hi] for 0 <= lo: out-of-range bounds are clamped, never an error.
\* n is the requested length hi - lo (kept apart so that lo + n is never formed
\* when n is a large length field).
Slice(v, lo, n) ==
    IF lo >= Len(v) \/ n <= 0 THEN <<>>
    ELSE SubSeq(v, lo + 1, lo + Min(n, Len(v) - lo))

\* v[lo:] for 0 <= lo.
SliceFrom(v, lo) == Slice(v, lo, Len(v))

\* v[:-4]
DropLast4(v) == Slice(v, 0, Len(v) - 4)

\* v[-4:]
Last4(v) == SliceFrom(v, Max(Len(v) - 4, 0))

\* int.from_bytes(bs, "little"); 0 for the empty string.
RECURSIVE int_from_bytes(_)
int_from_bytes(bs) ==
    IF bs = <<>> THEN 0 ELSE bs[1] + 256 * int_from_bytes(Tail(bs))

\* The concatenation of the strings ss[lo], ..., ss[hi] ("".join, b"".join),
\* by halving so that long lists are joined in logarithmic depth.
RECURSIVE Join(_, _, _)
Join(ss, lo, hi) ==
    IF lo > hi THEN <<>>
    ELSE IF lo = hi THEN ss[lo]
    ELSE LET mid == (lo + hi) \div 2
         IN  Join(ss, lo, mid) \o Join(ss, mid + 1, hi)

\* ------------------------------------------------------------------------
\* AI_Encapsulator: low-level helpers
\* ------------------------------------------------------------------------

MAGIC == <<71, 76, 89, 80, 72, 76, 76, 77>>

BRAILLE_BASE == 10240

\* struct.pack("<B", x & 0xFF)
u8(x) == <<x % 256>>

\* struct.pack("<H", x & 0xFFFF)
u16(x) == <<x % 256, (x \div 256) % 256>>

\* struct.pack("<I", x & 0xFFFFFFFF), for the lengths and checksums below 2^31
\* that the model forms.
u32(x) == <<x % 256, (x \div 256) % 256, (x \div 65536) % 256, (x \div 16777216) % 256>>

\* 2^n for n >= 0.
RECURSIVE Pow2(_)
Pow2(n) == IF n = 0 THEN 1 ELSE 2 * Pow2(n - 1)

\* floor(log2 m) for m >= 1.
RECURSIVE Log2(_)
Log2(m) == IF m < 2 THEN 0 ELSE 1 + Log2(m \div 2)

\* A finite non-negative float is the pair <<m, e>> standing for m * 2^e, with m
\* odd, or <<0, 0>> for 0.0 (a Python float is such a dyadic number).
RECURSIVE FloatNorm(_, _)
FloatNorm(m, e) ==
    IF m = 0 THEN <<0, 0>>
    ELSE IF m % 2 = 0 THEN FloatNorm(m \div 2, e + 1)
    ELSE <<m, e>>

\* The IEEE-754 binary32 bit pattern struct.pack("<f", ...) writes for the
\* non-negative float x = <<m, e>> in the normal range: the significand is
\* rounded to 24 bits, ties to even.
F32Bits(x) ==
    IF x[1] = 0 THEN 0
    ELSE LET k     == Log2(x[1])
             shift == k - 23
             q     == IF shift <= 0 THEN x[1] * Pow2(-shift) ELSE x[1] \div Pow2(shift)
             r     == IF shift <= 0 THEN 0 ELSE x[1] % Pow2(shift)
             half  == IF shift <= 0 THEN 1 ELSE Pow2(shift - 1)
             up    == shift > 0 /\ (r > half \/ (r = half /\ q % 2 = 1))
             q2    == IF up THEN q + 1 ELSE q
             carry == q2 = 16777216
             sig   == IF carry THEN 8388608 ELSE q2
             ex    == k + x[2] + (IF carry THEN 1 ELSE 0)
         IN  (ex + 127) * 8388608 + (sig - 8388608)

\* def f32(x): return struct.pack("<f", float(x))
f32(x) == <<F32Bits(x) % 256, (F32Bits(x) \div 256) % 256,
            (F32Bits(x) \div 65536) % 256, (F32Bits(x) \div 16777216) % 256>>

\* The float of a binary32 bit pattern with the sign bit clear (what
\* struct.unpack_from("<f", ...)[0] returns); <<0, 255>> stands for inf and nan.
F32Value(bits) ==
    LET ef   == bits \div 8388608
        frac == bits % 8388608
    IN  IF ef = 255 THEN <<0, 255>>
        ELSE IF ef = 0 THEN FloatNorm(frac, -149)
        ELSE FloatNorm(8388608 + frac, ef - 150)

\* <<sum of (b[i]+1), position-weighted sum of (b[i]+1)>> over b[lo..hi], both
\* reduced; by halving, so that long buffers are summed in logarithmic depth.
RECURSIVE ByteSums(_, _, _)
ByteSums(b, lo, hi) ==
    IF lo > hi THEN <<0, 0>>
    ELSE IF lo = hi THEN <<b[lo] + 1, ((lo % 251) + 1) * (b[lo] + 1)>>
    ELSE LET mid == (lo + hi) \div 2
             l   == ByteSums(b, lo, mid)
             r   == ByteSums(b, mid + 1, hi)
         IN  <<(l[1] + r[1]) % 32749, (l[2] + r[2]) % 65521>>

\* def crc32(b): return binascii.crc32(b) & 0xFFFFFFFF
\* binascii.crc32 is modelled as a 31-bit checksum of the bytes and their
\* positions: 0 on the empty string, and changed by every change of one byte
\* and by every truncation or extension.
crc32(b) ==
    LET s == ByteSums(b, 1, Len(b)) IN (s[1] % 32749) * 65536 + (s[2] % 65521)

\* The check value zlib carries at the end of a stream (adler32 of the raw data).
adler32(raw) == (1 + ByteSums(raw, 1, Len(raw))[2]) % 65521

\* zlib.compress(out, 9), modelled as a lossless stream: the two header bytes
\* 78 DA, the data, and the 4-byte check value of the data.
zlib_compress(raw) == <<120, 218>> \o raw \o u32(adler32(raw))

\* zlib.decompress(comp): the data of a well-formed stream; zlib.error on a
\* truncated stream, a wrong header or a wrong check value.
zlib_decompress(comp) ==
    LET body == Slice(comp, 2, Len(comp) - 6)
    IN  IF /\ Len(comp) >= 6
           /\ comp[1] = 120 /\ comp[2] = 218
           /\ int_from_bytes(Last4(comp)) = adler32(body)
        THEN [ok |-> TRUE, raw |-> body]
        ELSE [ok |-> FALSE, raw |-> <<>>]

\* compress + crc, the last two lines of encode_v2_leaf and encode_v3_page.
Envelope(out) ==
    LET comp == zlib_compress(out) IN comp \o u32(crc32(comp))

\* The range test with its upper end one too far: U+2900 passes.
InBraille_through(ch) == 10240 <= ch /\ ch <= 10496

\* 0x2800 <= ord(ch) <= 0x28FF
InBraille(ch) == 10240 <= ch /\ ch <= 10495

\* def to_braille(b): "".join(chr(BRAILLE_BASE + (x & 0xFF)) for x in b)
to_braille(b) == [i \in 1..Len(b) |-> BRAILLE_BASE + (b[i] % 256)]

\* def from_braille(text): bytes((ord(ch)-BRAILLE_BASE) & 0xFF
\*                               for ch in text if 0x2800 <= ord(ch) <= 0x28FF)
from_braille(text) ==
    LET kept == SelectSeq(text, InBraille)
    IN  [i \in 1..Len(kept) |-> (kept[i] - BRAILLE_BASE) % 256]

\* ------------------------------------------------------------------------
\* JSON values, json.dumps(..., separators=(",", ":"), sort_keys=True) and
\* json.loads.  A value is a record [t, s, n, m]: a string (its code points in
\* s), a non-negative integer (n), None, or a dict (m, a function from key
\* strings to values).  Dict equality is function equality, as in Python.
\* ------------------------------------------------------------------------

JStr(s) == [t |-> "str", s |-> s, n |-> 0, m |-> <<>>]

JInt(n) == [t |-> "int", s |-> <<>>, n |-> n, m |-> <<>>]

JNull == [t |-> "null", s |-> <<>>, n |-> 0, m |-> <<>>]

JObj(m) == [t |-> "obj", s |-> <<>>, n |-> 0, m |-> m]

\* d.get(k, default)
DictGet(d, k, default) == IF k \in DOMAIN d THEN d[k] ELSE default

\* a.update(b): the keys of b win.
DictUpdate(a, b) ==
    [k \in DOMAIN a \cup DOMAIN b |-> IF k \in DOMAIN b THEN b[k] ELSE a[k]]

\* a < b for strings: code point order, a proper prefix first.
StrLess(a, b) ==
    \E i \in 1..(Min(Len(a), Len(b)) + 1) :
        /\ \A j \in 1..(i - 1) : a[j] = b[j]
        /\ \/ i > Len(a) /\ i <= Len(b)
           \/ i <= Len(a) /\ i <= Len(b) /\ a[i] < b[i]

\* sorted(keys), the order sort_keys=True writes a dict in.
RECURSIVE SortedKeys(_)
SortedKeys(S) ==
    IF S = {} THEN <<>>
    ELSE LET k == CHOOSE x \in S : \A y \in S \ {x} : StrLess(x, y)
         IN  <<k>> \o SortedKeys(S \ {k})

HexDigit(d) == IF d < 10 THEN 48 + d ELSE 87 + d

\* The JSON text of one character of a string under ensure_ascii (characters
\* of the Basic Multilingual Plane).
JsonEscape(c) ==
    IF c = 34 THEN <<92, 34>>
    ELSE IF c = 92 THEN <<92, 92>>
    ELSE IF c = 10 THEN <<92, 110>>
    ELSE IF c = 13 THEN <<92, 114>>
    ELSE IF c = 9 THEN <<92, 116>>
    ELSE IF c = 8 THEN <<92, 98>>
    ELSE IF c = 12 THEN <<92, 102>>
    ELSE IF c >= 32 /\ c <= 126 THEN <<c>>
    ELSE <<92, 117, HexDigit(c \div 4096), HexDigit((c \div 256) % 16),
           HexDigit((c \div 16) % 16), HexDigit(c % 16)>>

JsonString(s) == <<34>> \o Join([i \in 1..Len(s) |-> JsonEscape(s[i])], 1, Len(s)) \o <<34>>

RECURSIVE Digits(_)
Digits(n) == IF n < 10 THEN <<48 + n>> ELSE Digits(n \div 10) \o <<48 + (n % 10)>>

\* json.dumps(v, separators=(",", ":"), sort_keys=True).encode("utf-8"): the
\* text is ASCII, so its UTF-8 bytes are its code points.
RECURSIVE json_dumps(_)
json_dumps(v) ==
    IF v.t = "str" THEN JsonString(v.s)
    ELSE IF v.t = "int" THEN Digits(v.n)
    ELSE IF v.t = "null" THEN <<110, 117, 108, 108>>
    ELSE LET ks == SortedKeys(DOMAIN v.m)
             Item(i) == (IF i > 1 THEN <<44>> ELSE <<>>)
                        \o JsonString(ks[i]) \o <<58>> \o json_dumps(v.m[ks[i]])
             RECURSIVE Items(_)
             Items(i) == IF i > Len(ks) THEN <<>> ELSE Item(i) \o Items(i + 1)
         IN  <<123>> \o Items(1) \o <<125>>

HexVal(c) ==
    IF c >= 48 /\ c <= 57 THEN c - 48
    ELSE IF c >= 97 /\ c <= 102 THEN c - 87
    ELSE IF c >= 65 /\ c <= 70 THEN c - 55
    ELSE -1

ParseFail == [ok |-> FALSE, v |-> JNull, pos |-> 0]

\* The character a backslash escape at t[i] (the character after the
\* backslash) stands for, and the position after it.
JsonUnescape(t, i) ==
    IF i > Len(t) THEN ParseFail
    ELSE IF t[i] = 34 \/ t[i] = 92 \/ t[i] = 47 THEN [ok |-> TRUE, v |-> t[i], pos |-> i + 1]
    ELSE IF t[i] = 110 THEN [ok |-> TRUE, v |-> 10, pos |-> i + 1]
    ELSE IF t[i] = 114 THEN [ok |-> TRUE, v |-> 13, pos |-> i + 1]
    ELSE IF t[i] = 116 THEN [ok |-> TRUE, v |-> 9, pos |-> i + 1]
    ELSE IF t[i] = 98 THEN [ok |-> TRUE, v |-> 8, pos |-> i + 1]
    ELSE IF t[i] = 102 THEN [ok |-> TRUE, v |-> 12, pos |-> i + 1]
    ELSE IF /\ t[i] = 117 /\ i + 4 <= Len(t)
            /\ \A j \in 1..4 : HexVal(t[i + j]) >= 0
         THEN [ok |-> TRUE, pos |-> i + 5,
               v |-> 4096 * HexVal(t[i + 1]) + 256 * HexVal(t[i + 2])
                     + 16 * HexVal(t[i + 3]) + HexVal(t[i + 4])]
    ELSE ParseFail

\* The first position from i on that holds a quote, a backslash or a control
\* character, or Len(t) + 1 (the scanner matches the plain run before it whole).
NextSpecial(t, i) ==
    LET S == {j \in i..Len(t) : t[j] = 34 \/ t[j] = 92 \/ t[j] < 32}
    IN  IF S = {} THEN Len(t) + 1 ELSE CHOOSE j \in S : \A k \in S : j <= k

\* The body of a JSON string from t[i] on (after the opening quote) appended to
\* acc, up to and including the closing quote.
RECURSIVE JsonScanString(_, _, _)
JsonScanString(t, i, acc) ==
    LET j     == NextSpecial(t, i)
        chunk == acc \o SubSeq(t, i, j - 1)
    IN  IF j > Len(t) THEN ParseFail
        ELSE IF t[j] = 34 THEN [ok |-> TRUE, v |-> chunk, pos |-> j + 1]
        ELSE IF t[j] = 92 THEN
            LET e == JsonUnescape(t, j + 1)
            IN  IF e.ok THEN JsonScanString(t, e.pos, Append(chunk, e.v)) ELSE ParseFail
        ELSE ParseFail

RECURSIVE JsonScanInt(_, _, _)
JsonScanInt(t, i, acc) ==
    IF i <= Len(t) /\ t[i] >= 48 /\ t[i] <= 57
    THEN JsonScanInt(t, i + 1, 10 * acc + (t[i] - 48))
    ELSE [ok |-> TRUE, v |-> JInt(acc), pos |-> i]

\* The JSON value that starts at t[i], and the members of a dict from t[i] on.
RECURSIVE JsonParseValue(_, _)
RECURSIVE JsonParseMembers(_, _, _)
JsonParseValue(t, i) ==
    IF i > Len(t) THEN ParseFail
    ELSE IF t[i] = 34 THEN
        LET r == JsonScanString(t, i + 1, <<>>)
        IN  IF r.ok THEN [ok |-> TRUE, v |-> JStr(r.v), pos |-> r.pos] ELSE ParseFail
    ELSE IF t[i] >= 48 /\ t[i] <= 57 THEN JsonScanInt(t, i, 0)
    ELSE IF Slice(t, i - 1, 4) = <<110, 117, 108, 108>>
         THEN [ok |-> TRUE, v |-> JNull, pos |-> i + 4]
    ELSE IF t[i] = 123 THEN
        IF i + 1 <= Len(t) /\ t[i + 1] = 125
        THEN [ok |-> TRUE, v |-> JObj(<<>>), pos |-> i + 2]
        ELSE JsonParseMembers(t, i + 1, <<>>)
    ELSE ParseFail

JsonParseMembers(t, i, m) ==
    IF i > Len(t) \/ t[i] # 34 THEN ParseFail
    ELSE LET k == JsonScanString(t, i + 1, <<>>)
         IN  IF ~k.ok \/ k.pos > Len(t) \/ t[k.pos] # 58 THEN ParseFail
             ELSE LET x  == JsonParseValue(t, k.pos + 1)
                      m2 == [j \in DOMAIN m \cup {k.v} |-> IF j = k.v THEN x.v ELSE m[j]]
                  IN  IF ~x.ok \/ x.pos > Len(t) THEN ParseFail
                      ELSE IF t[x.pos] = 125
                           THEN [ok |-> TRUE, v |-> JObj(m2), pos |-> x.pos + 1]
                      ELSE IF t[x.pos] = 44 THEN JsonParseMembers(t, x.pos + 1, m2)
                      ELSE ParseFail

\* json.loads(text): the value, or a JSONDecodeError (ok = FALSE) when the text
\* is not one JSON value.  The grammar is the one json_dumps writes: strings,
\* non-negative integers, null and dicts, without whitespace.
json_loads(t) ==
    LET r == JsonParseValue(t, 1)
    IN  IF r.ok /\ r.pos = Len(t) + 1 THEN r ELSE ParseFail

\* ------------------------------------------------------------------------
\* UTF-8 (str.encode("utf-8"), bytes.decode("utf-8", errors="strict")) over
\* Unicode scalar values.
\* ------------------------------------------------------------------------

Utf8Char(c) ==
    IF c < 128 THEN <<c>>
    ELSE IF c < 2048 THEN <<192 + (c \div 64), 128 + (c % 64)>>
    ELSE IF c < 65536 THEN <<224 + (c \div 4096), 128 + ((c \div 64) % 64), 128 + (c % 64)>>
    ELSE <<240 + (c \div 262144), 128 + ((c \div 4096) % 64),
           128 + ((c \div 64) % 64), 128 + (c % 64)>>

utf8_encode(text) == Join([i \in 1..Len(text) |-> Utf8Char(text[i])], 1, Len(text))

IsCont(bs, i) == i <= Len(bs) /\ bs[i] >= 128 /\ bs[i] < 192

\* The number of bytes of the character that the lead byte x opens; 0 when x
\* cannot open one (a continuation byte, C0, C1, F5 and above).
Utf8Len(x) ==
    IF x < 128 THEN 1
    ELSE IF x >= 194 /\ x < 224 THEN 2
    ELSE IF x >= 224 /\ x < 240 THEN 3
    ELSE IF x >= 240 /\ x < 245 THEN 4
    ELSE 0

\* The code point of the character whose lead byte is bs[i], or -1: a missing
\* continuation byte, an overlong form, a surrogate, a value above U+10FFFF.
Utf8Point(bs, i) ==
    LET n == Utf8Len(bs[i])
        c == IF n = 1 THEN bs[i]
             ELSE IF n = 2 THEN (bs[i] - 192) * 64 + (bs[i + 1] - 128)
             ELSE IF n = 3 THEN (bs[i] - 224) * 4096 + (bs[i + 1] - 128) * 64
                                + (bs[i + 2] - 128)
             ELSE (bs[i] - 240) * 262144 + (bs[i + 1] - 128) * 4096
                  + (bs[i + 2] - 128) * 64 + (bs[i + 3] - 128)
    IN  IF n = 0 \/ \E j \in 1..(n - 1) : ~IsCont(bs, i + j) THEN -1
        ELSE IF n = 3 /\ (c < 2048 \/ (c >= 55296 /\ c <= 57343)) THEN -1
        ELSE IF n = 4 /\ (c < 65536 \/ c > 1114111) THEN -1
        ELSE c

\* bytes.decode("utf-8"): the characters open at the bytes that are not
\* continuation bytes; ok = FALSE is UnicodeDecodeError (an invalid character,
\* or a continuation byte that belongs to none).
utf8_decode(bs) ==
    LET leads == SelectSeq([i \in 1..Len(bs) |-> i], LAMBDA i : ~IsCont(bs, i))
    IN  IF /\ ~IsCont(bs, 1)
           /\ \A k \in 1..Len(leads) :
                /\ Utf8Point(bs, leads[k]) >= 0
                /\ ~IsCont(bs, leads[k] + Utf8Len(bs[leads[k]]))
        THEN [ok |-> TRUE, text |-> [k \in 1..Len(leads) |-> Utf8Point(bs, leads[k])]]
        ELSE [ok |-> FALSE, text |-> <<>>]

\* ------------------------------------------------------------------------
\* AI_Encapsulator: encoders
\* ------------------------------------------------------------------------

K_comp == <<99, 111, 109, 112>>
K_version == <<118, 101, 114, 115, 105, 111, 110>>
K_word == <<119, 111, 114, 100>>
K_meta == <<109, 101, 116, 97>>
K_title == <<116, 105, 116, 108, 101>>
K_page_index == <<112, 97, 103, 101, 95, 105, 110, 100, 101, 120>>
K_page_count == <<112, 97, 103, 101, 95, 99, 111, 117, 110, 116>>
K_inner_version == <<105, 110, 110, 101, 114, 95, 118, 101, 114, 115, 105, 111, 110>>
K_scheme == <<115, 99, 104, 101, 109, 101>>
S_book_page == <<98, 111, 111, 107, 95, 112, 97, 103, 101>>
S_single_leaf == <<115, 105, 110, 103, 108, 101, 45, 108, 101, 97, 102>>
S_superparagraph == <<115, 117, 112, 101, 114, 112, 97, 114, 97, 103, 114, 97, 112, 104>>
S_1_0_0 == <<49, 46, 48, 46, 48>>

\* "⧈ΩϞ⧉ GNGM:", " •" and "• ⧉ϞΩ⧈"
LINE_OPEN == <<10696, 937, 990, 10697, 32, 71, 78, 71, 77, 58>>
LINE_MID == <<32, 8226>>
LINE_CLOSE == <<8226, 32, 10697, 990, 937, 10696>>

\* One block of the loop of encode_v2_leaf; blk.name is ASCII.
BlockBytes(blk) ==
    LET nm == Slice(blk.name, 0, 255)
    IN  u8(1) \o u8(Len(nm)) \o nm \o u16(blk.ndim) \o f32(blk.vmin) \o f32(blk.vmax)
        \o u32(Len(blk.payload)) \o blk.payload

\* `out` of encode_v2_leaf before compression: header, meta, blocks, terminator.
LeafRaw(v2_meta, blks) ==
    LET meta_bytes == json_dumps(JObj(v2_meta))
    IN  MAGIC \o u8(2) \o u16(Len(meta_bytes)) \o meta_bytes
        \o Join([i \in 1..Len(blks) |-> BlockBytes(blks[i])], 1, Len(blks)) \o u8(0)

encode_v2_leaf(v2_meta, blks) == Envelope(LeafRaw(v2_meta, blks))

\* `out` of encode_v3_page before compression; extra_meta = <<>> is None or {}.
PageRaw(title, v2_framed, extra_meta) ==
    LET base == (K_comp :> JStr(S_book_page)) @@ (K_title :> JStr(title))
                @@ (K_page_index :> JInt(1)) @@ (K_page_count :> JInt(1))
                @@ (K_inner_version :> JInt(2)) @@ (K_scheme :> JStr(S_single_leaf))
        meta == IF DOMAIN extra_meta # {} THEN DictUpdate(base, extra_meta) ELSE base
        meta_bytes == json_dumps(JObj(meta))
    IN  MAGIC \o u8(3) \o u16(Len(meta_bytes)) \o meta_bytes
        \o u32(Len(v2_framed)) \o v2_framed

encode_v3_page(title, v2_framed, extra_meta) ==
    Envelope(PageRaw(title, v2_framed, extra_meta))

\* The v2 meta and the single block encode_superparagraph builds from sp.
SpMeta(sp) ==
    (K_comp :> JStr(S_superparagraph)) @@ (K_version :> JStr(S_1_0_0))
    @@ (K_word :> DictGet(sp, K_word, JNull)) @@ (K_meta :> DictGet(sp, K_meta, JObj(<<>>)))

SpBlocks(sp) ==
    << [name |-> S_superparagraph, ndim |-> 0, vmin |-> <<0, 0>>, vmax |-> <<0, 0>>,
        payload |-> json_dumps(JObj(sp))] >>

encode_superparagraph(sp, title) ==
    LINE_OPEN \o title \o LINE_MID
    \o to_braille(encode_v3_page(title, encode_v2_leaf(SpMeta(sp), SpBlocks(sp)), <<>>))
    \o LINE_CLOSE

\* ------------------------------------------------------------------------
\* State: one call of the encoder side followed by one run of
\* decode_superparagraph on the resulting line, a stage per step.
\* ------------------------------------------------------------------------

VARIABLES
    pc,         \* where decode_superparagraph stands ("idle": no line yet)
    call,       \* what produced the line: the operation and its arguments
    line,       \* the text handed to decode_superparagraph
    edits,      \* characters inserted into / bits flipped in the line so far
    b,          \* locals of decode_superparagraph, by their names in the source
    v3_raw,
    inner_len,
    framed_v2,
    v2_raw,
    off2,
    blocks,
    reads,      \* the (ndim, vmin, vmax) locals of each scanned block, in order
    result,     \* the returned JSON value, once pc = "done"
    err,        \* the exception raised, once pc = "raised"
    ran         \* the stages executed so far, in order

capVars == <<pc, call, line, edits, b, v3_raw, inner_len, framed_v2, v2_raw, off2,
             blocks, reads, result, err, ran>>

\* The glyph codec (GlyphMatics_Equations): one operation and its inverse.
VARIABLES
    gpc,        \* "idle", "glyphs" (a glyphstring was produced), "back" (decoded)
    gin,        \* the operation and its arguments
    glyphs,     \* the glyphstring produced
    gout        \* what the inverse operation returned or raised

codecVars == <<gpc, gin, glyphs, gout>>

\* Encoding and decoding a frame whose metadata is very long, in one step: only
\* the sizes and the outcome are kept, not the buffers.
VARIABLES
    wide

wideVars == <<wide>>

\* The sigil assigner (GlyphNotes_Sigil_Encoder): the encode command.
VARIABLES
    spc,            \* "idle", "loop", "returned", "saved", "raised"
    worddef_data,   \* the glyph lexicon read by load_worddef_lexicon
    sargs,          \* base_codepoint and max_sigils
    sidx,           \* idx: entries of the lexicon examined so far
    sigil_entries,  \* assign_sigils' list of accepted entries
    used_sigils,    \* assign_sigils' dict: sigil -> word
    lex,            \* the SigilLexicon returned
    out_file,       \* the JSON written by save_sigil_lexicon
    serr            \* the exception raised, "none" if none

sigilVars == <<spc, worddef_data, sargs, sidx, sigil_entries, used_sigils, lex, out_file, serr>>

\* The glyph algebra (GlyphMatics_Equations): one call of one function.
VARIABLES
    xop,        \* the function called, "none" before the call
    xa,         \* its first argument
    xb,         \* its second argument
    xres        \* what it returned or raised

algebraVars == <<xop, xa, xb, xres>>

\* GlyphEncoder (GlyphNotes): an encoder is constructed and used.
VARIABLES
    epc,        \* "new", "refused", "ready", "encoded", "received", "back", "decoded"
    enc,        \* the encoder's alphabet
    ereq,       \* the bytes handed to bytes_to_glyphs
    eglyphs,    \* the glyph string produced or received
    eout        \* what glyphs_to_bytes returned or raised

encoderVars == <<epc, enc, ereq, eglyphs, eout>>

\* The commands on a sigil lexicon file (GlyphNotes_Sigil_Encoder).
VARIABLES
    lcmd,       \* the command run, "none" before
    lfile,      \* the sigil lexicon file it loads
    larg,       \* its --word, --sigil, --text or --sigils
    lres        \* what it prints, or the SystemExit

lookupVars == <<lcmd, lfile, larg, lres>>

\* The rehydration sigil commands (rehydration_sigil).
VARIABLES
    rcmd,        \* the command run, "none" before
    sigil_path,  \* the sigil file the command reads or writes
    root_ok,     \* whether a file under the root can be opened for writing
    root_before, \* the state files under the root before the command
    root_files,  \* the state files under the root after it
    rres         \* what load_sigil gave the command, or its exception

rehydVars == <<rcmd, sigil_path, root_ok, root_before, root_files, rres>>

\* The notes DB (GlyphNotes).
VARIABLES
    npc,         \* "closed" before main built its encoder, "open" after
    nenc,        \* the alphabet of the encoder handed to every add_note
    db_path,     \* the file glyphnotes_db.json
    db_first,    \* the notes the file held when the first add_note loaded it
    notes_added  \* the notes that the add_note calls returned, in order

notesVars == <<npc, nenc, db_path, db_first, notes_added>>

\* The variables of the later sections: every action of the earlier sections
\* leaves them alone.
glyphVars == <<algebraVars, encoderVars, lookupVars, rehydVars, notesVars>>

\* What the container's actions leave alone, and what the codec's do.
notCap == <<codecVars, wideVars, sigilVars, glyphVars>>

notCodec == <<capVars, wideVars, sigilVars, glyphVars>>

notSigil == <<capVars, codecVars, wideVars, glyphVars>>

notAlgebra == <<capVars, codecVars, wideVars, sigilVars, encoderVars, lookupVars,
               rehydVars, notesVars>>

notEncoder == <<capVars, codecVars, wideVars, sigilVars, algebraVars, lookupVars,
               rehydVars, notesVars>>

notLookup == <<capVars, codecVars, wideVars, sigilVars, algebraVars, encoderVars,
              rehydVars, notesVars>>

notRehyd == <<capVars, codecVars, wideVars, sigilVars, algebraVars, encoderVars,
             lookupVars, notesVars>>

notNotes == <<capVars, codecVars, wideVars, sigilVars, algebraVars, encoderVars,
             lookupVars, rehydVars>>

vars == <<capVars, codecVars, wideVars, sigilVars, glyphVars>>

NoCall == [op |-> "none", sp |-> <<>>, title |-> <<>>, extra |-> <<>>, v2_meta |-> <<>>,
           blocks |-> <<>>, v2_framed |-> <<>>, bytes |-> <<>>]

CapInit ==
    /\ pc = "idle"
    /\ call = NoCall
    /\ line = <<>>
    /\ edits = 0
    /\ b = <<>>
    /\ v3_raw = <<>>
    /\ inner_len = 0
    /\ framed_v2 = <<>>
    /\ v2_raw = <<>>
    /\ off2 = 0
    /\ blocks = <<>>
    /\ reads = <<>>
    /\ result = JNull
    /\ err = "none"
    /\ ran = <<>>

decLocals == <<b, v3_raw, inner_len, framed_v2, v2_raw, off2, blocks, reads, result, err, ran>>

\* ------------------------------------------------------------------------
\* Inputs
\* ------------------------------------------------------------------------

K_definition == <<100, 101, 102, 105, 110, 105, 116, 105, 111, 110>>
K_pos == <<112, 111, 115>>
S_entropy == <<101, 110, 116, 114, 111, 112, 121>>
S_disorder == <<100, 105, 115, 111, 114, 100, 101, 114, 32, 109, 101, 97, 115, 117, 114, 101>>
S_noun == <<110, 111, 117, 110>>

\* {"word":"entropy","definition":"disorder measure","meta":{"pos":"noun"}}
SpEntropy ==
    (K_word :> JStr(S_entropy)) @@ (K_definition :> JStr(S_disorder))
    @@ (K_meta :> JObj(K_pos :> JStr(S_noun)))

\* Records: the documented one, one without word and meta, one whose strings
\* hold a quote, a backslash, a newline, a non-ASCII letter and a Braille
\* character, and the empty record.
Records ==
    { SpEntropy,
      (K_definition :> JStr(<<120>>)),
      (K_word :> JStr(<<233, 34, 92>>)) @@ (K_definition :> JStr(<<10, 10241>>)),
      <<>> }

\* Titles: "", "t", a title with a newline, titles with a Braille character.
Titles == { <<>>, <<116>>, <<97, 10, 98>>, <<10241>>, <<116, 10495, 116>> }

MaxBlocks == 2

\* Blocks for encode_v2_leaf: names, payloads, dims over the u16 range, and
\* floats that binary32 holds (0.0, 1.0, 1.5) and does not hold (2^24 + 1).
BlockSamples ==
    { [name |-> S_superparagraph, ndim |-> 0, vmin |-> <<0, 0>>, vmax |-> <<0, 0>>,
       payload |-> <<123, 125>>],
      [name |-> <<97>>, ndim |-> 1, vmin |-> <<1, 0>>, vmax |-> <<3, -1>>,
       payload |-> <<>>],
      [name |-> <<>>, ndim |-> 65535, vmin |-> <<0, 0>>, vmax |-> <<16777217, 0>>,
       payload |-> <<0, 255>>],
      [name |-> <<98, 98>>, ndim |-> 256, vmin |-> <<3, -1>>, vmax |-> <<1, 0>>,
       payload |-> <<1>>] }

RECURSIVE SeqsUpTo(_, _)
SeqsUpTo(S, n) ==
    IF n = 0 THEN {<<>>}
    ELSE LET shorter == SeqsUpTo(S, n - 1)
         IN  shorter \cup {Append(q, x) : q \in shorter, x \in S}

LeafMetas == { <<>>, (K_comp :> JStr(<<120>>)) @@ (K_word :> JNull) }

ExtraMetas == { <<>>, (K_title :> JStr(<<111>>)) @@ (K_pos :> JInt(7)) }

\* ------------------------------------------------------------------------
\* The encoder side: each action produces the line that is decoded next.
\* ------------------------------------------------------------------------

\* line = encode_superparagraph(sp, title)
EncodeSuperparagraph ==
    /\ pc = "idle"
    /\ \E sp \in Records, title \in Titles :
        /\ call' = [NoCall EXCEPT !.op = "superparagraph", !.sp = sp, !.title = title,
                                  !.v2_meta = SpMeta(sp), !.blocks = SpBlocks(sp),
                                  !.v2_framed = encode_v2_leaf(SpMeta(sp), SpBlocks(sp))]
        /\ line' = encode_superparagraph(sp, title)
    /\ pc' = "line"
    /\ UNCHANGED <<edits, decLocals>>
    /\ UNCHANGED notCap

\* The range of a u16 length field (`& 0xFFFF`).
U16_RANGE == 65536

\* line = to_braille(encode_v3_page(title, encode_v2_leaf(v2_meta, blocks), extra))
EncodeLeafPage ==
    /\ pc = "idle"
    /\ \E v2_meta \in LeafMetas, blks \in SeqsUpTo(BlockSamples, MaxBlocks),
          title \in {<<116>>}, extra \in ExtraMetas :
        LET v2_framed == encode_v2_leaf(v2_meta, blks)
        IN  /\ call' = [NoCall EXCEPT !.op = "leaf_page", !.title = title,
                                      !.extra = extra, !.v2_meta = v2_meta,
                                      !.blocks = blks, !.v2_framed = v2_framed]
            /\ line' = to_braille(encode_v3_page(title, v2_framed, extra))
    /\ pc' = "line"
    /\ UNCHANGED <<edits, decLocals>>
    /\ UNCHANGED notCap

\* ------------------------------------------------------------------------
\* decode_superparagraph, stage by stage
\* ------------------------------------------------------------------------

\* v[i] for a 0-based index i < len(v).
At(v, i) == v[i + 1]

\* An exception leaves decode_superparagraph: nothing later runs.
Raise(stage, e) ==
    /\ pc' = "raised"
    /\ err' = e
    /\ ran' = Append(ran, stage)

\* b = from_braille(line)
FromBraille ==
    /\ pc = "line"
    /\ b' = from_braille(line)
    /\ pc' = "crc3"
    /\ ran' = Append(ran, "from_braille")
    /\ UNCHANGED <<call, line, edits, v3_raw, inner_len, framed_v2, v2_raw, off2,
                   blocks, reads, result, err>>
    /\ UNCHANGED notCap

\* The stage without its comparison: whatever the stored CRC, go on to
\* decompress.
CheckCrc3_unchecked ==
    /\ pc = "crc3"
    /\ pc' = "unzip3"
    /\ ran' = Append(ran, "crc3")
    /\ UNCHANGED <<call, line, edits, b, v3_raw, inner_len, framed_v2, v2_raw, off2,
                   blocks, reads, result, err>>
    /\ UNCHANGED notCap

\* comp3, crc3 = b[:-4], b[-4:]
\* if crc32(comp3) != int.from_bytes(crc3, "little"): raise ValueError
CheckCrc3 ==
    /\ pc = "crc3"
    /\ IF crc32(DropLast4(b)) # int_from_bytes(Last4(b))
       THEN Raise("crc3", "V3 CRC mismatch")
       ELSE /\ pc' = "unzip3"
            /\ ran' = Append(ran, "crc3")
            /\ err' = err
    /\ UNCHANGED <<call, line, edits, b, v3_raw, inner_len, framed_v2, v2_raw, off2,
                   blocks, reads, result>>
    /\ UNCHANGED notCap

\* v3_raw = zlib.decompress(comp3)
Unzip3 ==
    /\ pc = "unzip3"
    /\ LET r == zlib_decompress(DropLast4(b))
       IN  IF r.ok
           THEN /\ v3_raw' = r.raw
                /\ pc' = "magic3"
                /\ ran' = Append(ran, "unzip3")
                /\ err' = err
           ELSE /\ Raise("unzip3", "zlib.error")
                /\ v3_raw' = v3_raw
    /\ UNCHANGED <<call, line, edits, b, inner_len, framed_v2, v2_raw, off2,
                   blocks, reads, result>>
    /\ UNCHANGED notCap

\* raw[:8] != MAGIC or raw[8] != version: "bad" raises ValueError, "index" is
\* the IndexError of raw[8] on a buffer that is exactly the magic.
MagicCheck(raw, version) ==
    IF Slice(raw, 0, 8) # MAGIC THEN "bad"
    ELSE IF Len(raw) <= 8 THEN "index"
    ELSE IF At(raw, 8) # version THEN "bad"
    ELSE "ok"

\* if v3_raw[:8] != MAGIC or v3_raw[8] != 3: raise ValueError
CheckMagic3 ==
    /\ pc = "magic3"
    /\ LET m == MagicCheck(v3_raw, 3)
       IN  IF m = "ok"
           THEN /\ pc' = "parse3"
                /\ ran' = Append(ran, "magic3")
                /\ err' = err
           ELSE Raise("magic3", IF m = "index" THEN "IndexError"
                                ELSE "Bad V3 MAGIC or version")
    /\ UNCHANGED <<call, line, edits, b, v3_raw, inner_len, framed_v2, v2_raw, off2,
                   blocks, reads, result>>
    /\ UNCHANGED notCap

\* off = 9; mlen = int.from_bytes(raw[off:off+2], "little"); off += 2; off += mlen
SkipMeta(raw) == 9 + 2 + int_from_bytes(Slice(raw, 9, 2))

\* inner_len = int.from_bytes(v3_raw[off:off+4], "little"); off += 4
\* framed_v2 = v3_raw[off:off+inner_len]
ParsePage(raw) ==
    LET off == SkipMeta(raw)
        n   == int_from_bytes(Slice(raw, off, 4))
    IN  [inner_len |-> n, framed_v2 |-> Slice(raw, off + 4, n)]

ParseV3 ==
    /\ pc = "parse3"
    /\ inner_len' = ParsePage(v3_raw).inner_len
    /\ framed_v2' = ParsePage(v3_raw).framed_v2
    /\ pc' = "crc2"
    /\ ran' = Append(ran, "parse3")
    /\ UNCHANGED <<call, line, edits, b, v3_raw, v2_raw, off2, blocks, reads, result, err>>
    /\ UNCHANGED notCap

\* comp2, crc2 = framed_v2[:-4], framed_v2[-4:]
\* if crc32(comp2) != int.from_bytes(crc2, "little"): raise ValueError
CheckCrc2 ==
    /\ pc = "crc2"
    /\ IF crc32(DropLast4(framed_v2)) # int_from_bytes(Last4(framed_v2))
       THEN Raise("crc2", "V2 CRC mismatch")
       ELSE /\ pc' = "unzip2"
            /\ ran' = Append(ran, "crc2")
            /\ err' = err
    /\ UNCHANGED <<call, line, edits, b, v3_raw, inner_len, framed_v2, v2_raw, off2,
                   blocks, reads, result>>
    /\ UNCHANGED notCap

\* v2_raw = zlib.decompress(comp2)
Unzip2 ==
    /\ pc = "unzip2"
    /\ LET r == zlib_decompress(DropLast4(framed_v2))
       IN  IF r.ok
           THEN /\ v2_raw' = r.raw
                /\ pc' = "magic2"
                /\ ran' = Append(ran, "unzip2")
                /\ err' = err
           ELSE /\ Raise("unzip2", "zlib.error")
                /\ v2_raw' = v2_raw
    /\ UNCHANGED <<call, line, edits, b, v3_raw, inner_len, framed_v2, off2,
                   blocks, reads, result>>
    /\ UNCHANGED notCap

\* if v2_raw[:8] != MAGIC or v2_raw[8] != 2: raise ValueError
\* then off2 = 9; mlen2 = ...; off2 += 2; off2 += mlen2; blocks = []
CheckMagic2 ==
    /\ pc = "magic2"
    /\ LET m == MagicCheck(v2_raw, 2)
       IN  IF m = "ok"
           THEN /\ pc' = "scan"
                /\ off2' = SkipMeta(v2_raw)
                /\ ran' = Append(ran, "magic2")
                /\ err' = err
           ELSE /\ Raise("magic2", IF m = "index" THEN "IndexError"
                                   ELSE "Bad V2 MAGIC or version")
                /\ off2' = off2
    /\ UNCHANGED <<call, line, edits, b, v3_raw, inner_len, framed_v2, v2_raw,
                   blocks, reads, result>>
    /\ UNCHANGED notCap

IsAscii(x) == x < 128

\* One pass of the `while off2 < len(v2_raw)` loop from offset off: "end" when
\* the loop condition fails, "break" on a zero type tag, "index" / "struct" for
\* the IndexError of v2_raw[off2] and the struct.error of unpack_from past the
\* end of the buffer, else "block" with the block read and the offset after it.
ScanStep(raw, off) ==
    LET none  == [name |-> <<>>, payload |-> <<>>]
        nor   == [ndim |-> 0, vmin |-> <<0, 0>>, vmax |-> <<0, 0>>]
        o1    == off + 1
        nlen  == At(raw, o1)
        o2    == o1 + 1
        name  == SelectSeq(Slice(raw, o2, nlen), IsAscii)
        o3    == o2 + nlen
        ndim  == int_from_bytes(Slice(raw, o3, 2))
        o4    == o3 + 2
        vmin  == F32Value(int_from_bytes(Slice(raw, o4, 4)))
        o5    == o4 + 4
        vmax  == F32Value(int_from_bytes(Slice(raw, o5, 4)))
        o6    == o5 + 4
        plen  == int_from_bytes(Slice(raw, o6, 4))
        o7    == o6 + 4
    IN  IF off >= Len(raw) THEN [kind |-> "end", off |-> off, blk |-> none, read |-> nor]
        ELSE IF At(raw, off) = 0 THEN [kind |-> "break", off |-> o1, blk |-> none, read |-> nor]
        ELSE IF o1 >= Len(raw) THEN [kind |-> "index", off |-> o1, blk |-> none, read |-> nor]
        ELSE IF o4 + 4 > Len(raw) \/ o5 + 4 > Len(raw)
             THEN [kind |-> "struct", off |-> IF o4 + 4 > Len(raw) THEN o4 ELSE o5,
                   blk |-> none, read |-> nor]
        ELSE [kind |-> "block", off |-> o7 + plen,
              blk  |-> [name |-> name, payload |-> Slice(raw, o7, plen)],
              read |-> [ndim |-> ndim, vmin |-> vmin, vmax |-> vmax]]

\* while off2 < len(v2_raw): ... blocks.append({"name": name, "payload": payload})
ScanBlock ==
    /\ pc = "scan"
    /\ LET st == ScanStep(v2_raw, off2)
       IN  /\ off2' = st.off
           /\ IF st.kind = "block"
              THEN /\ blocks' = Append(blocks, st.blk)
                   /\ reads' = Append(reads, st.read)
              ELSE UNCHANGED <<blocks, reads>>
           /\ IF st.kind = "index" THEN Raise("scan", "IndexError")
              ELSE IF st.kind = "struct" THEN Raise("scan", "struct.error")
              ELSE /\ pc' = IF st.kind = "block" THEN "scan" ELSE "return"
                   /\ ran' = Append(ran, "scan")
                   /\ err' = err
    /\ UNCHANGED <<call, line, edits, b, v3_raw, inner_len, framed_v2, v2_raw, result>>
    /\ UNCHANGED notCap

\* The whole loop from offset off with the blocks read so far: how it ended
\* ("end", "break", "index", "struct") and the blocks.
RECURSIVE ScanLoop(_, _, _)
ScanLoop(raw, off, blks) ==
    LET st == ScanStep(raw, off)
    IN  IF st.kind = "block" THEN ScanLoop(raw, st.off, Append(blks, st.blk))
        ELSE [kind |-> st.kind, blocks |-> blks]

\* next(b for b in blocks if b["name"] == "superparagraph"): the index of the
\* first such block, 0 when there is none (StopIteration).
FirstNamed(blks, name) ==
    IF \E i \in 1..Len(blks) : blks[i].name = name
    THEN CHOOSE i \in 1..Len(blks) :
            /\ blks[i].name = name
            /\ \A j \in 1..(i - 1) : blks[j].name # name
    ELSE 0

\* blk = next(...); return json.loads(blk["payload"].decode("utf-8"))
Return ==
    /\ pc = "return"
    /\ LET i == FirstNamed(blocks, S_superparagraph)
           t == utf8_decode(blocks[i].payload)
           r == json_loads(t.text)
       IN  IF i = 0 THEN Raise("return", "StopIteration") /\ result' = result
           ELSE IF ~t.ok THEN Raise("return", "UnicodeDecodeError") /\ result' = result
           ELSE IF ~r.ok THEN Raise("return", "JSONDecodeError") /\ result' = result
           ELSE /\ result' = r.v
                /\ pc' = "done"
                /\ ran' = Append(ran, "return")
                /\ err' = err
    /\ UNCHANGED <<call, line, edits, b, v3_raw, inner_len, framed_v2, v2_raw, off2,
                   blocks, reads>>
    /\ UNCHANGED notCap

\* ------------------------------------------------------------------------
\* Other sources of lines: armored bytes with delimiter text inserted, a
\* stored line with one bit flipped, and lines written by another encoder.
\* ------------------------------------------------------------------------

MaxArmorLen == 2

MaxJunk == 1

MaxTamper == 2

ByteSamples == {0, 127, 128, 255}

\* Every single byte, and the strings over ByteSamples up to MaxArmorLen.
ArmorBytes == {<<x>> : x \in 0..255} \cup SeqsUpTo(ByteSamples, MaxArmorLen)

\* Characters outside U+2800..U+28FF: the two neighbours of the block, a
\* space and the bullet of the line delimiters.
JunkChars == {10239, 10496, 32, 8226}

\* line = to_braille(B)
Armor ==
    /\ pc = "idle"
    /\ \E B \in ArmorBytes :
        /\ call' = [NoCall EXCEPT !.op = "armor", !.bytes = B]
        /\ line' = to_braille(B)
    /\ pc' = "line"
    /\ UNCHANGED <<edits, decLocals>>
    /\ UNCHANGED notCap

\* A non-armor character is inserted somewhere into an armored string.
Interleave ==
    /\ pc = "line"
    /\ call.op = "armor"
    /\ edits < MaxJunk
    /\ \E p \in 0..Len(line), ch \in JunkChars :
        line' = Slice(line, 0, p) \o <<ch>> \o SliceFrom(line, p)
    /\ edits' = edits + 1
    /\ UNCHANGED <<pc, call, decLocals>>
    /\ UNCHANGED notCap

\* The positions of the armor characters of a text.
BrailleIdx(text) ==
    SelectSeq([i \in 1..Len(text) |-> i], LAMBDA i : InBraille(text[i]))

FlipBit0(x) == IF x % 2 = 0 THEN x + 1 ELSE x - 1

\* The lowest bit of one armored byte of an encoded line is flipped in
\* storage: one of the first or of the last MaxTamper armor characters.
Tamper ==
    /\ pc = "line"
    /\ call.op \in {"superparagraph", "leaf_page"}
    /\ edits = 0
    /\ LET idx == BrailleIdx(line)
       IN  \E k \in 1..Len(idx) :
            /\ k <= MaxTamper \/ k > Len(idx) - MaxTamper
            /\ line' = [line EXCEPT ![idx[k]] = BRAILLE_BASE + FlipBit0(line[idx[k]] - BRAILLE_BASE)]
    /\ edits' = 1
    /\ UNCHANGED <<pc, call, decLocals>>
    /\ UNCHANGED notCap

\* A leaf written by another encoder: two blocks, the first the superparagraph
\* block with payload "{}".
ForeignLeaf ==
    LeafRaw(<<>>, << [name |-> S_superparagraph, ndim |-> 0, vmin |-> <<0, 0>>,
                      vmax |-> <<0, 0>>, payload |-> <<123, 125>>],
                     [name |-> <<97>>, ndim |-> 1, vmin |-> <<1, 0>>, vmax |-> <<3, -1>>,
                      payload |-> <<7, 8>>] >>)

\* That leaf cut at every offset (no terminator), with a wrong version, with a
\* wrong magic; and a leaf that is the magic alone.
ForeignLeafRaws ==
    {Slice(ForeignLeaf, 0, k) : k \in 0..Len(ForeignLeaf)}
    \cup { [ForeignLeaf EXCEPT ![9] = 3], [ForeignLeaf EXCEPT ![1] = 72] }

\* An envelope whose stored CRC is wrong, and one whose CRC is right but whose
\* compressed stream is not a zlib stream.
BadCrc(env) == [env EXCEPT ![Len(env)] = FlipBit0(env[Len(env)])]

BadZip(raw) ==
    LET comp == [zlib_compress(raw) EXCEPT ![1] = 121] IN comp \o u32(crc32(comp))

ForeignInners ==
    {Envelope(raw) : raw \in ForeignLeafRaws}
    \cup { BadCrc(Envelope(ForeignLeaf)), BadZip(ForeignLeaf), <<>>, <<1, 2, 3>> }

ForeignPages ==
    {Envelope(PageRaw(<<116>>, inner, <<>>)) : inner \in ForeignInners}
    \cup { BadCrc(Envelope(PageRaw(<<116>>, Envelope(ForeignLeaf), <<>>))),
           BadZip(PageRaw(<<116>>, Envelope(ForeignLeaf), <<>>)),
           Envelope(MAGIC), Envelope(<<>>), Envelope(MAGIC \o u8(2)),
           Envelope([MAGIC EXCEPT ![1] = 72] \o u8(3)),
           Envelope(MAGIC \o u8(3)),
           <<>>, <<0>>, <<5>>, <<0, 0, 0, 0>>, <<0, 0, 0, 0, 0>> }

\* line = a text from elsewhere (--decode --line ...)
ReceiveForeign ==
    /\ pc = "idle"
    /\ \E env \in ForeignPages :
        /\ call' = [NoCall EXCEPT !.op = "foreign", !.bytes = env]
        /\ line' = to_braille(env)
    /\ pc' = "line"
    /\ UNCHANGED <<edits, decLocals>>
    /\ UNCHANGED notCap

\* Lengths of a long metadata string: short, one for which the
\* serialized metadata still fits a u16 length, and the u16 range itself.
WideLens == {1, U16_RANGE - 128, U16_RANGE}

NoWide == [op |-> "none", n |-> 0, stage |-> "none", sent |-> 0, got |-> 0, same |-> FALSE]

WideInit == wide = NoWide

\* The stage of decode_superparagraph's page half that fails on the envelope
\* env, or "parsed".
PageOutcome(env) ==
    LET comp3 == DropLast4(env)
        z     == zlib_decompress(comp3)
    IN  IF crc32(comp3) # int_from_bytes(Last4(env)) THEN "crc3"
        ELSE IF ~z.ok THEN "unzip3"
        ELSE IF MagicCheck(z.raw, 3) # "ok" THEN "magic3"
        ELSE "parsed"

\* encode_v3_page(title, E) with a title of n characters, then the page half
\* of decode_superparagraph on it: the inner length sent and parsed, and
\* whether the inner slice is E.
PageTrip(n) ==
    LET E   == encode_v2_leaf(<<>>, <<>>)
        env == encode_v3_page([i \in 1..n |-> 97], E, <<>>)
        raw == zlib_decompress(DropLast4(env)).raw
        p   == ParsePage(raw)
    IN  [op |-> "page", n |-> n, stage |-> PageOutcome(env),
         sent |-> Len(E), got |-> p.inner_len, same |-> p.framed_v2 = E]

WidePage ==
    /\ pc = "idle"
    /\ \E n \in WideLens : wide' = PageTrip(n)
    /\ pc' = "wide"
    /\ UNCHANGED <<call, line, edits, b, v3_raw, inner_len, framed_v2, v2_raw, off2,
                   blocks, reads, result, err, ran, codecVars, sigilVars, glyphVars>>

\* encode_v2_leaf(meta, blocks) with a metadata string of n characters, then
\* the leaf half of decode_superparagraph on it: the number of blocks sent and
\* scanned, and whether the scanned names and payloads are the ones sent, in
\* order.
LeafTrip(n, blks) ==
    LET E    == encode_v2_leaf(K_word :> JStr([i \in 1..n |-> 97]), blks)
        raw  == zlib_decompress(DropLast4(E)).raw
        scan == ScanLoop(raw, SkipMeta(raw), <<>>)
    IN  [op |-> "leaf", n |-> n,
         stage |-> IF crc32(DropLast4(E)) # int_from_bytes(Last4(E)) THEN "crc2"
                   ELSE IF MagicCheck(raw, 2) # "ok" THEN "magic2"
                   ELSE scan.kind,
         sent |-> Len(blks), got |-> Len(scan.blocks),
         same |-> /\ Len(scan.blocks) = Len(blks)
                  /\ \A i \in 1..Len(blks) :
                        /\ scan.blocks[i].name = blks[i].name
                        /\ scan.blocks[i].payload = blks[i].payload]

WideLeaf ==
    /\ pc = "idle"
    /\ \E n \in WideLens, blks \in SeqsUpTo(BlockSamples, 1) : wide' = LeafTrip(n, blks)
    /\ pc' = "wide"
    /\ UNCHANGED <<call, line, edits, b, v3_raw, inner_len, framed_v2, v2_raw, off2,
                   blocks, reads, result, err, ran, codecVars, sigilVars, glyphVars>>

CapNext ==
    \/ EncodeSuperparagraph
    \/ EncodeLeafPage
    \/ Armor
    \/ Interleave
    \/ Tamper
    \/ ReceiveForeign
    \/ FromBraille
    \/ CheckCrc3
    \/ Unzip3
    \/ CheckMagic3
    \/ ParseV3
    \/ CheckCrc2
    \/ Unzip2
    \/ CheckMagic2
    \/ ScanBlock
    \/ Return

\* ------------------------------------------------------------------------
\* GlyphMatics_Equations: the 111-glyph alphabet, algebra and codec.
\* A glyphstring is a sequence of code points.
\* ------------------------------------------------------------------------

GLYPH_ALPHABET ==
    << 10038, 10039, 10040, 10041, 10042, 10043, 10044, 10045, 10046, 10047,
       10048, 10049, 10050, 10051, 10052, 10053, 10054, 10055, 10056, 10057,
       10058, 10059, 10070, 10072, 10073, 10074, 10075, 10076, 10077, 10078,
       10081, 10082, 10083, 10084, 10085, 10086, 10087, 10209, 10210, 10211,
       10212, 10213, 10214, 10215, 10216, 10217, 10218, 10219, 10220, 10221,
       10222, 10223, 10696, 10697, 10698, 10699, 10700, 10701, 10702, 10703,
       11026, 11027, 11028, 11029, 11030, 11031, 11032, 11033, 11034, 11035,
       11036, 11037, 11038, 11039, 9733, 9734, 10022, 10023, 10025, 10026,
       10027, 10028, 10029, 10030, 10031, 10032, 9728, 9729, 9730, 9731,
       9732, 9735, 9736, 9737, 9738, 9739, 9740, 9741, 9751, 9750,
       9824, 9827, 9829, 9830, 9828, 9831, 9825, 9826, 9879, 8847,
       8848 >>

ALPHABET_SIZE == Len(GLYPH_ALPHABET)

\* GLYPH_TO_INDEX = {g: i for i, g in enumerate(GLYPH_ALPHABET)}: a later
\* occurrence of a glyph would overwrite an earlier one.
InAlphabet(c) == \E i \in 1..ALPHABET_SIZE : GLYPH_ALPHABET[i] = c

GLYPH_TO_INDEX(c) ==
    (CHOOSE i \in 1..ALPHABET_SIZE :
        /\ GLYPH_ALPHABET[i] = c
        /\ \A j \in (i + 1)..ALPHABET_SIZE : GLYPH_ALPHABET[j] # c) - 1

INDEX_TO_GLYPH(i) == GLYPH_ALPHABET[i + 1]

\* "".join(c for c in s if c in GLYPH_TO_INDEX)
normalize_glyphstring(s) == SelectSeq(s, InAlphabet)

glen(s) == Len(normalize_glyphstring(s))

_glyph_add_idx(i, j) == (i + j) % ALPHABET_SIZE

\* The difference taken the other way round.
_glyph_sub_idx_reversed(i, j) == (j - i) % ALPHABET_SIZE

_glyph_sub_idx(i, j) == (i - j) % ALPHABET_SIZE

\* The last symbol of A repeated past its end, instead of A over again.
Cyc_clamped(A, k) == A[Min(k, Len(A) - 1) + 1]

\* A[k % len(A)] for a 0-based k.
Cyc(A, k) == A[(k % Len(A)) + 1]

gadd(ga, gb) ==
    LET A == normalize_glyphstring(ga)
        B == normalize_glyphstring(gb)
        n == Max(Len(A), Len(B))
    IN  IF A = <<>> \/ B = <<>> THEN (IF A # <<>> THEN A ELSE B)
        ELSE [k \in 1..n |->
                INDEX_TO_GLYPH(_glyph_add_idx(GLYPH_TO_INDEX(Cyc(A, k - 1)),
                                              GLYPH_TO_INDEX(Cyc(B, k - 1))))]

gsub(ga, gb) ==
    LET A == normalize_glyphstring(ga)
        B == normalize_glyphstring(gb)
        n == Max(Len(A), Len(B))
    IN  IF A = <<>> \/ B = <<>> THEN A
        ELSE [k \in 1..n |->
                INDEX_TO_GLYPH(_glyph_sub_idx(GLYPH_TO_INDEX(Cyc(A, k - 1)),
                                              GLYPH_TO_INDEX(Cyc(B, k - 1))))]

\* The pair with quotient and remainder exchanged: (lo, hi) where the decoder
\* expects (hi, lo).
_byte_to_pair_swapped(x) == <<x % ALPHABET_SIZE, x \div ALPHABET_SIZE>>

\* The pair of a byte in base 16 instead of base ALPHABET_SIZE.
_byte_to_pair_base16(x) == <<x \div 16, x % 16>>

\* hi = b // ALPHABET_SIZE; lo = b % ALPHABET_SIZE
_byte_to_pair(x) == <<x \div ALPHABET_SIZE, x % ALPHABET_SIZE>>

\* The code of the pair, whatever its size.
_pair_to_byte_unchecked(hi, lo) == hi * ALPHABET_SIZE + lo

\* code = hi * ALPHABET_SIZE + lo; -1 stands for the ValueError of an index out
\* of range or of code >= 256.
_pair_to_byte(hi, lo) ==
    IF ~(0 <= hi /\ hi < ALPHABET_SIZE /\ 0 <= lo /\ lo < ALPHABET_SIZE) THEN -1
    ELSE IF hi * ALPHABET_SIZE + lo >= 256 THEN -1
    ELSE hi * ALPHABET_SIZE + lo

BytePairGlyphs(x) ==
    <<INDEX_TO_GLYPH(_byte_to_pair(x)[1]), INDEX_TO_GLYPH(_byte_to_pair(x)[2])>>

encode_bytes_to_glyphs(data) ==
    Join([i \in 1..Len(data) |-> BytePairGlyphs(data[i])], 1, Len(data))

\* The bytes of a glyphstring, or the ValueError raised: "odd" for an odd
\* normalized length, "pair" for a pair that _pair_to_byte rejects.
decode_glyphs_to_bytes(s) ==
    LET s_norm == normalize_glyphstring(s)
        Byte(i) == _pair_to_byte(GLYPH_TO_INDEX(s_norm[2 * i - 1]),
                                 GLYPH_TO_INDEX(s_norm[2 * i]))
    IN  IF Len(s_norm) % 2 # 0 THEN [ok |-> FALSE, err |-> "odd", bytes |-> <<>>]
        ELSE IF \E i \in 1..(Len(s_norm) \div 2) : Byte(i) = -1
             THEN [ok |-> FALSE, err |-> "pair", bytes |-> <<>>]
        ELSE [ok |-> TRUE, err |-> "none",
              bytes |-> [i \in 1..(Len(s_norm) \div 2) |-> Byte(i)]]

encode_text_to_glyphs(text) == encode_bytes_to_glyphs(utf8_encode(text))

\* decode_glyphs_to_bytes(s).decode(encoding, errors="strict")
decode_glyphs_to_text(s) ==
    LET d == decode_glyphs_to_bytes(s)
        t == utf8_decode(d.bytes)
    IN  IF ~d.ok THEN [ok |-> FALSE, err |-> d.err, text |-> <<>>]
        ELSE IF ~t.ok THEN [ok |-> FALSE, err |-> "utf-8", text |-> <<>>]
        ELSE [ok |-> TRUE, err |-> "none", text |-> t.text]

\* channel_key = <<>> is None or "" (`if not channel_key`).
glyph_inner_dialog(text, channel_key) ==
    LET base == encode_text_to_glyphs(text)
    IN  IF channel_key = <<>> THEN base
        ELSE gadd(base, encode_text_to_glyphs(channel_key))

glyph_inner_dialog_decode(g, channel_key) ==
    LET s_norm == normalize_glyphstring(g)
    IN  IF channel_key = <<>> THEN decode_glyphs_to_text(s_norm)
        ELSE decode_glyphs_to_text(gsub(s_norm, encode_text_to_glyphs(channel_key)))

\* ------------------------------------------------------------------------
\* The codec's operations: a glyphstring is produced, then decoded.
\* ------------------------------------------------------------------------

MaxDataLen == 2

MaxTextLen == 2

\* Every single byte, and the strings over ByteSamples up to MaxDataLen.
CodecBytes == {<<x>> : x \in 0..255} \cup SeqsUpTo(ByteSamples, MaxDataLen)

\* NUL, "a", "é" (2 bytes of UTF-8) and "€" (3 bytes).
TextChars == {0, 97, 233, 8364}

Texts == SeqsUpTo(TextChars, MaxTextLen)

NoIn == [op |-> "none", data |-> <<>>, text |-> <<>>, key |-> <<>>]

NoOut == [ok |-> FALSE, err |-> "none", bytes |-> <<>>, text |-> <<>>]

CodecInit ==
    /\ gpc = "idle"
    /\ gin = NoIn
    /\ glyphs = <<>>
    /\ gout = NoOut

\* glyphs = encode_bytes_to_glyphs(data)
EncodeBytes ==
    /\ gpc = "idle"
    /\ \E data \in CodecBytes :
        /\ gin' = [NoIn EXCEPT !.op = "bytes", !.data = data]
        /\ glyphs' = encode_bytes_to_glyphs(data)
    /\ gpc' = "glyphs"
    /\ UNCHANGED gout
    /\ UNCHANGED notCodec

\* decode_glyphs_to_bytes(glyphs)
DecodeBytes ==
    /\ gpc = "glyphs"
    /\ gin.op = "bytes"
    /\ LET d == decode_glyphs_to_bytes(glyphs)
       IN  gout' = [ok |-> d.ok, err |-> d.err, bytes |-> d.bytes, text |-> <<>>]
    /\ gpc' = "back"
    /\ UNCHANGED <<gin, glyphs>>
    /\ UNCHANGED notCodec

\* glyphs = encode_text_to_glyphs(text)
EncodeText ==
    /\ gpc = "idle"
    /\ \E text \in Texts :
        /\ gin' = [NoIn EXCEPT !.op = "text", !.text = text]
        /\ glyphs' = encode_text_to_glyphs(text)
    /\ gpc' = "glyphs"
    /\ UNCHANGED gout
    /\ UNCHANGED notCodec

\* decode_glyphs_to_text(glyphs)
DecodeText ==
    /\ gpc = "glyphs"
    /\ gin.op = "text"
    /\ LET d == decode_glyphs_to_text(glyphs)
       IN  gout' = [ok |-> d.ok, err |-> d.err, bytes |-> <<>>, text |-> d.text]
    /\ gpc' = "back"
    /\ UNCHANGED <<gin, glyphs>>
    /\ UNCHANGED notCodec

\* glyphs = glyph_inner_dialog(text, channel_key)
InnerDialog ==
    /\ gpc = "idle"
    /\ \E text \in Texts, channel_key \in Texts :
        /\ gin' = [NoIn EXCEPT !.op = "dialog", !.text = text, !.key = channel_key]
        /\ glyphs' = glyph_inner_dialog(text, channel_key)
    /\ gpc' = "glyphs"
    /\ UNCHANGED gout
    /\ UNCHANGED notCodec

\* glyph_inner_dialog_decode(glyphs, channel_key), with the same key
InnerDialogDecode ==
    /\ gpc = "glyphs"
    /\ gin.op = "dialog"
    /\ LET d == glyph_inner_dialog_decode(glyphs, gin.key)
       IN  gout' = [ok |-> d.ok, err |-> d.err, bytes |-> <<>>, text |-> d.text]
    /\ gpc' = "back"
    /\ UNCHANGED <<gin, glyphs>>
    /\ UNCHANGED notCodec

CodecNext ==
    \/ EncodeBytes
    \/ DecodeBytes
    \/ EncodeText
    \/ DecodeText
    \/ InnerDialog
    \/ InnerDialogDecode

\* ------------------------------------------------------------------------
\* GlyphNotes_Sigil_Encoder: one single-character sigil per lexicon entry.
\* ------------------------------------------------------------------------

SCHEMA_VERSION == <<49, 46, 48, 46, 48>>

DEFAULT_BASE_CODEPOINT == 57344

\* The last code point chr() accepts (sys.maxunicode).
MAX_UNICODE == 1114111

\* str.strip(): leading and trailing whitespace removed.
strip(s) ==
    LET ink == {i \in 1..Len(s) : s[i] \notin {9, 10, 11, 12, 13, 28, 29, 30, 31, 32, 133, 160}}
    IN  IF ink = {} THEN <<>>
        ELSE SubSeq(s, CHOOSE i \in ink : \A j \in ink : i <= j,
                       CHOOSE i \in ink : \A j \in ink : j <= i)

\* f"U+{n:04X}": upper-case hexadecimal, at least four digits.
RECURSIVE HexUpper(_, _)
HexUpper(n, width) ==
    IF n = 0 /\ width <= 0 THEN <<>>
    ELSE Append(HexUpper(n \div 16, width - 1),
                IF n % 16 < 10 THEN 48 + (n % 16) ELSE 55 + (n % 16))

codepoint_str(n) == <<85, 43>> \o HexUpper(n, 4)

\* All sigils on the base code point: the entry's position is not added.
codepoint_int_fixed(base, i) == base

\* codepoint_int = base_codepoint + idx
codepoint_int(base, i) == base + i

\* chr(n) is a one-character string; chr raises ValueError outside
\* range(0x110000).
ChrOk(n) == 0 <= n /\ n <= MAX_UNICODE

chr(n) == <<n>>

\* The SigilEntry built for entry e, the i-th (0-based) of the lexicon. The
\* entries carry none of the optional keys glyph_crc, byte_crc, length and
\* entropy_est: the defaults of e.get apply.
SigilEntry(e, base, i) ==
    [word         |-> strip(e.word),
     definition   |-> strip(e.definition),
     glyphs       |-> e.glyphs,
     glyph_crc    |-> crc32(utf8_encode(e.glyphs)),
     byte_crc     |-> crc32(utf8_encode(e.glyphs)),
     glyph_length |-> Len(e.glyphs),
     entropy_est  |-> 0,
     sigil        |-> chr(codepoint_int(base, i)),
     codepoint    |-> codepoint_str(codepoint_int(base, i)),
     index        |-> i]

\* n >= max_sigils: a lexicon that exactly fills the capacity is refused.
TooMany_at_capacity(n, max_sigils) == n >= max_sigils

\* No capacity test at all.
TooMany_unchecked(n, max_sigils) == FALSE

\* if n > max_sigils: raise ValueError("Too many entries ...")
TooMany(n, max_sigils) == n > max_sigils

NoLex == [schema_version |-> <<>>, source_lexicon |-> <<>>, base_codepoint |-> -1,
          entries |-> <<>>]

\* SigilLexicon(schema_version, source_lexicon, base_codepoint, entries)
SigilLexicon(source, base, entries) ==
    [schema_version |-> SCHEMA_VERSION, source_lexicon |-> source,
     base_codepoint |-> base, entries |-> entries]

\* What assign_sigils hands to its caller when it raises after having
\* accepted the entries es: nothing.
RaisedLex_partial(source, base, es) == SigilLexicon(source, base, es)

RaisedLex(source, base, es) == NoLex

\* SigilLexicon.to_dict: the payload json.dump writes.
to_dict(lx) ==
    [schema_version |-> lx.schema_version, source_lexicon |-> lx.source_lexicon,
     base_codepoint |-> codepoint_str(lx.base_codepoint), entries |-> lx.entries]

\* Every sigil maps to the first entry of the list, whatever its own entry.
by_sigil_first(entries, ch) == IF entries = <<>> THEN 0 ELSE 1

\* _build_index_maps(lex)[1].get(ch): the position (1-based) in lex.entries
\* of the entry by_sigil holds for the character ch, 0 for None. A sigil already
\* in by_sigil is not overwritten: the first entry with it stays.
by_sigil(entries, ch) ==
    LET hits == {i \in 1..Len(entries) : entries[i].sigil = <<ch>>}
    IN  IF hits = {} THEN 0 ELSE CHOOSE i \in hits : \A j \in hits : i <= j

\* The entry that occurs last with the word, instead of the first.
by_word_last(entries, w) ==
    LET hits == {i \in 1..Len(entries) : entries[i].word = w}
    IN  IF hits = {} THEN 0 ELSE CHOOSE i \in hits : \A j \in hits : j <= i

\* _build_index_maps(lex)[0].get(w), in the same way.
by_word(entries, w) ==
    LET hits == {i \in 1..Len(entries) : entries[i].word = w}
    IN  IF hits = {} THEN 0 ELSE CHOOSE i \in hits : \A j \in hits : i <= j

MaxEntries == 3

MaxSigils == 3

\* One glyph of the 111-alphabet.
G1 == <<10038>>

\* Entries of a glyph lexicon: two words (one with blanks around it), an
\* entry whose word is blank, and one without glyphs.
EntrySamples ==
    { [word |-> <<32, 97, 32>>, definition |-> <<32, 120>>, glyphs |-> G1],
      [word |-> <<98>>,         definition |-> <<>>,        glyphs |-> G1 \o G1],
      [word |-> <<32>>,         definition |-> <<120>>,     glyphs |-> G1],
      [word |-> <<97>>,         definition |-> <<120>>,     glyphs |-> <<>>] }

Lexicons == SeqsUpTo(EntrySamples, MaxEntries)

\* The default base, and the last code point: chr() of anything above raises.
BaseCodepoints == {DEFAULT_BASE_CODEPOINT, MAX_UNICODE}

NoFile == [schema_version |-> <<>>, source_lexicon |-> <<>>, base_codepoint |-> <<>>,
           entries |-> <<>>]

SigilInit ==
    /\ spc = "idle"
    /\ worddef_data = [source_path |-> <<>>, entries |-> <<>>]
    /\ sargs = [base_codepoint |-> DEFAULT_BASE_CODEPOINT, max_sigils |-> 0]
    /\ sidx = 0
    /\ sigil_entries = <<>>
    /\ used_sigils = <<>>
    /\ lex = NoLex
    /\ out_file = NoFile
    /\ serr = "none"

\* An exception leaves assign_sigils and cmd_encode: save_sigil_lexicon is
\* not reached.
SigilRaise(e) ==
    /\ spc' = "raised"
    /\ serr' = e
    /\ lex' = RaisedLex(worddef_data.source_path, sargs.base_codepoint, sigil_entries)

\* cmd_encode up to the loop of assign_sigils: the lexicon is loaded, and
\* refused when it is empty or larger than max_sigils.
AssignBegin ==
    /\ spc = "idle"
    /\ \E entries \in Lexicons, base \in BaseCodepoints, max_sigils \in 0..MaxSigils :
        /\ worddef_data' = [source_path |-> <<112>>, entries |-> entries]
        /\ sargs' = [base_codepoint |-> base, max_sigils |-> max_sigils]
        /\ IF Len(entries) = 0
             THEN /\ spc' = "raised" /\ serr' = "empty"
           ELSE IF TooMany(Len(entries), max_sigils)
             THEN /\ spc' = "raised" /\ serr' = "capacity"
           ELSE /\ spc' = "loop" /\ serr' = "none"
    /\ UNCHANGED <<sidx, sigil_entries, used_sigils, lex, out_file>>
    /\ UNCHANGED notSigil

\* One pass of `for idx, e in enumerate(raw_entries)`.
AssignEntry ==
    /\ spc = "loop"
    /\ sidx < Len(worddef_data.entries)
    /\ LET e  == worddef_data.entries[sidx + 1]
           se == SigilEntry(e, sargs.base_codepoint, sidx)
       IN  IF strip(e.word) = <<>> \/ e.glyphs = <<>>
             THEN /\ sidx' = sidx + 1
                  /\ UNCHANGED <<spc, serr, lex, sigil_entries, used_sigils>>
           ELSE IF ~ChrOk(codepoint_int(sargs.base_codepoint, sidx))
             THEN /\ SigilRaise("chr")
                  /\ UNCHANGED <<sidx, sigil_entries, used_sigils>>
           ELSE IF \E k \in 1..Len(used_sigils) : used_sigils[k][1] = se.sigil
             THEN /\ SigilRaise("collision")
                  /\ UNCHANGED <<sidx, sigil_entries, used_sigils>>
           ELSE /\ used_sigils' = Append(used_sigils, <<se.sigil, se.word>>)
                /\ sigil_entries' = Append(sigil_entries, se)
                /\ sidx' = sidx + 1
                /\ UNCHANGED <<spc, serr, lex>>
    /\ UNCHANGED <<worddef_data, sargs, out_file>>
    /\ UNCHANGED notSigil

\* return SigilLexicon(...)
AssignReturn ==
    /\ spc = "loop"
    /\ sidx = Len(worddef_data.entries)
    /\ lex' = SigilLexicon(worddef_data.source_path, sargs.base_codepoint, sigil_entries)
    /\ spc' = "returned"
    /\ UNCHANGED <<worddef_data, sargs, sidx, sigil_entries, used_sigils, out_file, serr>>
    /\ UNCHANGED notSigil

\* save_sigil_lexicon(lex, out_path)
SaveSigilLexicon ==
    /\ spc = "returned"
    /\ out_file' = to_dict(lex)
    /\ spc' = "saved"
    /\ UNCHANGED <<worddef_data, sargs, sidx, sigil_entries, used_sigils, lex, serr>>
    /\ UNCHANGED notSigil

SigilNext ==
    \/ AssignBegin
    \/ AssignEntry
    \/ AssignReturn
    \/ SaveSigilLexicon

\* ------------------------------------------------------------------------
\* GlyphNotes_Sigil_Encoder: the commands that read a sigil lexicon file.
\* ------------------------------------------------------------------------

\* int(digits, 16)
RECURSIVE int16(_)
int16(ds) ==
    IF ds = <<>> THEN 0
    ELSE 16 * int16(SubSeq(ds, 1, Len(ds) - 1)) + HexVal(ds[Len(ds)])

\* SigilLexicon.from_dict(data), data as load_sigil_lexicon reads it: the base
\* code point is parsed from its "U+XXXX" text.
from_dict(f) ==
    [schema_version |-> f.schema_version, source_lexicon |-> f.source_lexicon,
     base_codepoint |-> IF Len(f.base_codepoint) >= 2 /\ SubSeq(f.base_codepoint, 1, 2) = <<85, 43>>
                        THEN int16(SubSeq(f.base_codepoint, 3, Len(f.base_codepoint)))
                        ELSE -1,
     entries |-> f.entries]

\* The text up to its first blank only.
split_first(s) ==
    LET blanks == {i \in 1..Len(s) : s[i] = 32}
    IN  IF s = <<>> \/ s[1] = 32 THEN <<>>
        ELSE IF blanks = {} THEN <<s>>
        ELSE <<SubSeq(s, 1, (CHOOSE i \in blanks : \A j \in blanks : i <= j) - 1)>>

\* str.split(): the maximal runs of characters that are not whitespace.
split(s) ==
    LET ws(i)  == s[i] \in {9, 10, 11, 12, 13, 28, 29, 30, 31, 32, 133, 160}
        starts == {i \in 1..Len(s) : ~ws(i) /\ (i = 1 \/ ws(i - 1))}
        nth(k) == CHOOSE i \in starts : Cardinality({j \in starts : j < i}) = k - 1
        end(i) == CHOOSE j \in i..Len(s) :
                    /\ \A m \in i..j : ~ws(m)
                    /\ (j = Len(s) \/ ws(j + 1))
    IN  [k \in 1..Cardinality(starts) |-> SubSeq(s, nth(k), end(nth(k)))]

MaxFileLen == 3

MaxQueryLen == 3

\* Entries of a sigil lexicon file: the words "a" and "b" and the sigils
\* U+E000 and U+E001; two entries of a file may have the same word or the
\* same sigil.
FileEntry(w, cp, i) ==
    [word |-> <<w>>, definition |-> <<>>, glyphs |-> G1, glyph_crc |-> 0, byte_crc |-> 0,
     glyph_length |-> 1, entropy_est |-> 0, sigil |-> <<cp>>, codepoint |-> codepoint_str(cp),
     index |-> i]

EntryKinds == {<<97, 57344>>, <<97, 57345>>, <<98, 57344>>}

LexiconFiles ==
    { to_dict(SigilLexicon(<<>>, DEFAULT_BASE_CODEPOINT,
                           [i \in 1..Len(ks) |-> FileEntry(ks[i][1], ks[i][2], i - 1)])) :
        ks \in SeqsUpTo(EntryKinds, MaxFileLen) }

\* --text: the words "a", "b" and "c" and blanks.
QueryTexts == SeqsUpTo({97, 98, 99, 32}, MaxQueryLen)

\* --sigils: three sigils, of which the files have two, and the blank.
QuerySigils == SeqsUpTo({57344, 57345, 57346, 32}, MaxQueryLen)

NoAnswer == [ok |-> FALSE, err |-> "none", entry |-> 0, hits |-> <<>>, missing |-> <<>>,
             out |-> <<>>]

LookupInit ==
    /\ lcmd = "none"
    /\ lfile = NoFile
    /\ larg = [word |-> <<>>, sigil |-> <<>>, text |-> <<>>]
    /\ lres = NoAnswer

\* cmd_decode: --word or --sigil; the answer is the position of the entry
\* printed. An argument left out (None) is the empty string.
CmdDecode ==
    /\ lcmd = "none"
    /\ \E f \in LexiconFiles, w \in {<<>>, <<97>>, <<98>>, <<99>>},
          sg \in {<<>>, <<57344>>, <<57345>>, <<57346>>, <<57344, 57345>>} :
        LET es == from_dict(f).entries
        IN  /\ lfile' = f
            /\ larg' = [word |-> w, sigil |-> sg, text |-> <<>>]
            /\ lres' =
                IF w # <<>>
                THEN IF by_word(es, w) = 0 THEN [NoAnswer EXCEPT !.err = "no word"]
                     ELSE [NoAnswer EXCEPT !.ok = TRUE, !.entry = by_word(es, w)]
                ELSE IF sg # <<>>
                THEN IF Len(sg) # 1 THEN [NoAnswer EXCEPT !.err = "one character"]
                     ELSE IF by_sigil(es, sg[1]) = 0 THEN [NoAnswer EXCEPT !.err = "no sigil"]
                     ELSE [NoAnswer EXCEPT !.ok = TRUE, !.entry = by_sigil(es, sg[1])]
                ELSE [NoAnswer EXCEPT !.err = "no argument"]
    /\ lcmd' = "decode"
    /\ UNCHANGED notLookup

\* cmd_encode_text: the sigils of the tokens that are words, the other tokens
\* as missing; SystemExit for a text that is empty once stripped.
CmdEncodeText ==
    /\ lcmd = "none"
    /\ \E f \in LexiconFiles, t \in QueryTexts :
        LET es     == from_dict(f).entries
            tokens == split(strip(t))
            hit(k)  == by_word(es, tokens[k]) # 0
            hits   == SelectSeq([k \in 1..Len(tokens) |-> k], hit)
            miss(k) == ~hit(k)
            misses == SelectSeq([k \in 1..Len(tokens) |-> k], miss)
            sigils == [k \in 1..Len(hits) |-> es[by_word(es, tokens[hits[k]])].sigil]
        IN  /\ lfile' = f
            /\ larg' = [word |-> <<>>, sigil |-> <<>>, text |-> t]
            /\ lres' =
                IF strip(t) = <<>> THEN [NoAnswer EXCEPT !.err = "empty"]
                ELSE [NoAnswer EXCEPT !.ok = TRUE, !.hits = sigils,
                        !.missing = [k \in 1..Len(misses) |-> tokens[misses[k]]],
                        !.out = Join(sigils, 1, Len(sigils))]
    /\ lcmd' = "encode-text"
    /\ UNCHANGED notLookup

\* cmd_decode_text: the words of the characters that are sigils, joined by
\* blanks, the other characters as missing; SystemExit for no characters.
CmdDecodeText ==
    /\ lcmd = "none"
    /\ \E f \in LexiconFiles, t \in QuerySigils :
        LET es     == from_dict(f).entries
            hit(k)  == by_sigil(es, t[k]) # 0
            hits   == SelectSeq([k \in 1..Len(t) |-> k], hit)
            miss(k) == ~hit(k)
            misses == SelectSeq([k \in 1..Len(t) |-> k], miss)
            words  == [k \in 1..Len(hits) |-> es[by_sigil(es, t[hits[k]])].word]
        IN  /\ lfile' = f
            /\ larg' = [word |-> <<>>, sigil |-> <<>>, text |-> t]
            /\ lres' =
                IF t = <<>> THEN [NoAnswer EXCEPT !.err = "empty"]
                ELSE [NoAnswer EXCEPT !.ok = TRUE, !.hits = words,
                        !.missing = [k \in 1..Len(misses) |-> <<t[misses[k]]>>],
                        !.out = Join([k \in 1..Len(words) |->
                                        (IF k > 1 THEN <<32>> ELSE <<>>) \o words[k]],
                                     1, Len(words))]
    /\ lcmd' = "decode-text"
    /\ UNCHANGED notLookup

LookupNext ==
    \/ CmdDecode
    \/ CmdEncodeText
    \/ CmdDecodeText

\* ------------------------------------------------------------------------
\* GlyphMatics_Equations: inverse and distance; calls of the algebra and of
\* the decoder on glyphstrings that no encoder produced.
\* ------------------------------------------------------------------------

\* The next index instead of the reflected one.
_glyph_inv_idx_next(i) == (i + 1) % ALPHABET_SIZE

\* inv = (ALPHABET_SIZE - 1 - idx) % ALPHABET_SIZE
_glyph_inv_idx(i) == (ALPHABET_SIZE - 1 - i) % ALPHABET_SIZE

ginv(s) ==
    LET A == normalize_glyphstring(s)
    IN  [k \in 1..Len(A) |-> INDEX_TO_GLYPH(_glyph_inv_idx(GLYPH_TO_INDEX(A[k])))]

\* mismatches / float(n), kept as the pair of its terms; 0.0 is 0/1 and 1.0
\* is 1/1.
Mismatches(A, B, n) ==
    Cardinality({k \in 0..(n - 1) : GLYPH_TO_INDEX(Cyc(A, k)) # GLYPH_TO_INDEX(Cyc(B, k))})

\* The mismatches of the positions both strings have, over the longer length.
gdist_overlap(ga, gb) ==
    LET A == normalize_glyphstring(ga)
        B == normalize_glyphstring(gb)
    IN  IF A = <<>> /\ B = <<>> THEN [num |-> 0, den |-> 1]
        ELSE IF A = <<>> \/ B = <<>> THEN [num |-> 1, den |-> 1]
        ELSE [num |-> Mismatches(A, B, Min(Len(A), Len(B))), den |-> Max(Len(A), Len(B))]

gdist(ga, gb) ==
    LET A == normalize_glyphstring(ga)
        B == normalize_glyphstring(gb)
    IN  IF A = <<>> /\ B = <<>> THEN [num |-> 0, den |-> 1]
        ELSE IF A = <<>> \/ B = <<>> THEN [num |-> 1, den |-> 1]
        ELSE [num |-> Mismatches(A, B, Max(Len(A), Len(B))), den |-> Max(Len(A), Len(B))]

\* glyph_crc32(s): CRC32 of the UTF-8 bytes of the normalized string.
glyph_crc32(s) == crc32(utf8_encode(normalize_glyphstring(s)))

\* _entropy_estimate(data): h = -sum p * log2(p) over the byte frequencies,
\* kept as n = len(data) and, for each count c, the number of byte values
\* that occur c times. h is 0.0 for no data and for data of one byte value.
ZeroEntropy == [n |-> 0, counts |-> <<>>]

_entropy_estimate(bs) ==
    LET vals     == {bs[i] : i \in 1..Len(bs)}
        freq(x)  == Cardinality({i \in 1..Len(bs) : bs[i] = x})
        cs       == {freq(x) : x \in vals}
    IN  IF Cardinality(vals) <= 1 THEN ZeroEntropy
        ELSE [n |-> Len(bs),
              counts |-> [c \in cs |-> Cardinality({x \in vals : freq(x) = c})]]

\* The codec's ValueError leaves fingerprint_glyphstring.
fingerprint_uncaught(s) ==
    LET s_norm == normalize_glyphstring(s)
        d      == decode_glyphs_to_bytes(s_norm)
    IN  [ok |-> d.ok, glyph_crc |-> glyph_crc32(s_norm),
         byte_crc |-> crc32(d.bytes), length |-> Len(s_norm),
         entropy_est |-> _entropy_estimate(d.bytes)]

\* fingerprint_glyphstring(s): ok is FALSE when an exception leaves it.
fingerprint_glyphstring(s) ==
    LET s_norm == normalize_glyphstring(s)
        d      == decode_glyphs_to_bytes(s_norm)
    IN  [ok |-> TRUE, glyph_crc |-> glyph_crc32(s_norm),
         byte_crc |-> IF d.ok THEN crc32(d.bytes) ELSE 0, length |-> Len(s_norm),
         entropy_est |-> IF d.ok THEN _entropy_estimate(d.bytes) ELSE ZeroEntropy]

MaxGlyphLen == 3

\* Operands of the algebra: the glyphs of index 1 and 110 and the letter "x",
\* which is not in the alphabet.
Operands == SeqsUpTo({INDEX_TO_GLYPH(1), INDEX_TO_GLYPH(110), 120}, MaxGlyphLen)

\* The glyphs of index 0, 2, 33 and 34: the pair (2, 33) is the byte 255, the
\* pair (2, 34) has the code 256.
PairGlyphs == {INDEX_TO_GLYPH(0), INDEX_TO_GLYPH(2), INDEX_TO_GLYPH(33), INDEX_TO_GLYPH(34)}

\* Strings handed to the decoder: short ones with the letter "x" among the
\* glyphs, and every two pairs of PairGlyphs.
DecoderInputs ==
    SeqsUpTo(PairGlyphs \cup {120}, MaxGlyphLen)
        \cup {<<p, q, r, s>> : p \in PairGlyphs, q \in PairGlyphs, r \in PairGlyphs, s \in PairGlyphs}

NoResult == [ok |-> FALSE, err |-> "none", glyphs |-> <<>>, bytes |-> <<>>, num |-> 0, den |-> 0,
             fp |-> [glyph_crc |-> 0, byte_crc |-> 0, length |-> 0, entropy_est |-> ZeroEntropy]]

AlgebraInit ==
    /\ xop = "none"
    /\ xa = <<>>
    /\ xb = <<>>
    /\ xres = NoResult

\* xres = gadd(a, b)
Gadd ==
    /\ xop = "none"
    /\ \E ga \in Operands, gb \in Operands :
        /\ xa' = ga
        /\ xb' = gb
        /\ xres' = [NoResult EXCEPT !.ok = TRUE, !.glyphs = gadd(ga, gb)]
    /\ xop' = "gadd"
    /\ UNCHANGED notAlgebra

\* xres = gsub(a, b)
Gsub ==
    /\ xop = "none"
    /\ \E ga \in Operands, gb \in Operands :
        /\ xa' = ga
        /\ xb' = gb
        /\ xres' = [NoResult EXCEPT !.ok = TRUE, !.glyphs = gsub(ga, gb)]
    /\ xop' = "gsub"
    /\ UNCHANGED notAlgebra

\* xres = gsub(xres, b), after xres = gadd(a, b)
GsubAgain ==
    /\ xop = "gadd"
    /\ xres' = [xres EXCEPT !.glyphs = gsub(xres.glyphs, xb)]
    /\ xop' = "gadd gsub"
    /\ UNCHANGED <<xa, xb>>
    /\ UNCHANGED notAlgebra

\* xres = gdist(a, b)
Gdist ==
    /\ xop = "none"
    /\ \E ga \in Operands, gb \in Operands :
        /\ xa' = ga
        /\ xb' = gb
        /\ xres' = [NoResult EXCEPT !.ok = TRUE, !.num = gdist(ga, gb).num,
                                    !.den = gdist(ga, gb).den]
    /\ xop' = "gdist"
    /\ UNCHANGED notAlgebra

\* xres = ginv(s), for the operands and for every glyph of the alphabet
Ginv ==
    /\ xop = "none"
    /\ \E s \in Operands \cup {<<GLYPH_ALPHABET[i]>> : i \in 1..ALPHABET_SIZE} :
        /\ xa' = s
        /\ xres' = [NoResult EXCEPT !.ok = TRUE, !.glyphs = ginv(s)]
    /\ xop' = "ginv"
    /\ UNCHANGED xb
    /\ UNCHANGED notAlgebra

\* xres = ginv(xres)
GinvAgain ==
    /\ xop = "ginv"
    /\ xres' = [xres EXCEPT !.glyphs = ginv(xres.glyphs)]
    /\ xop' = "ginv ginv"
    /\ UNCHANGED <<xa, xb>>
    /\ UNCHANGED notAlgebra

\* xres = decode_glyphs_to_bytes(s), or the ValueError it raises
DecodeGlyphs ==
    /\ xop = "none"
    /\ \E s \in DecoderInputs :
        /\ xa' = s
        /\ LET d == decode_glyphs_to_bytes(s)
           IN  xres' = [NoResult EXCEPT !.ok = d.ok, !.err = d.err, !.bytes = d.bytes]
    /\ xop' = "decode"
    /\ UNCHANGED xb
    /\ UNCHANGED notAlgebra

\* xres = encode_bytes_to_glyphs(xres), after xres = decode_glyphs_to_bytes(s)
\* returned
EncodeAgain ==
    /\ xop = "decode"
    /\ xres.ok
    /\ xres' = [xres EXCEPT !.glyphs = encode_bytes_to_glyphs(xres.bytes)]
    /\ xop' = "decode encode"
    /\ UNCHANGED <<xa, xb>>
    /\ UNCHANGED notAlgebra

\* xres = fingerprint_glyphstring(s)
Fingerprint ==
    /\ xop = "none"
    /\ \E s \in DecoderInputs :
        /\ xa' = s
        /\ LET f == fingerprint_glyphstring(s)
           IN  xres' = [NoResult EXCEPT !.ok = f.ok,
                            !.fp = [glyph_crc |-> f.glyph_crc, byte_crc |-> f.byte_crc,
                                    length |-> f.length, entropy_est |-> f.entropy_est]]
    /\ xop' = "fingerprint"
    /\ UNCHANGED xb
    /\ UNCHANGED notAlgebra

AlgebraNext ==
    \/ Fingerprint
    \/ Gadd
    \/ Gsub
    \/ GsubAgain
    \/ Gdist
    \/ Ginv
    \/ GinvAgain
    \/ DecodeGlyphs
    \/ EncodeAgain

\* ------------------------------------------------------------------------
\* GlyphNotes: GlyphEncoder, the two-glyphs-per-byte codec over the alphabet
\* it is constructed with. An alphabet is a list of strings.
\* ------------------------------------------------------------------------

MIN_ALPHABET == 16

\* self.index.get(ch): {ch: i for i, ch in enumerate(self.alphabet)} keeps the
\* last position of a symbol that occurs twice; -1 when ch is no key.
EncIndex(alph, ch) ==
    LET hits == {i \in 1..Len(alph) : alph[i] = <<ch>>}
    IN  IF hits = {} THEN -1 ELSE (CHOOSE i \in hits : \A j \in hits : j <= i) - 1

\* The two symbols of a byte, the low one first.
BytePair_swapped(alph, x) == alph[(x % Len(alph)) + 1] \o alph[(x \div Len(alph)) + 1]

\* out_chars.append(self.alphabet[hi]); out_chars.append(self.alphabet[lo])
BytePair(alph, x) == alph[(x \div Len(alph)) + 1] \o alph[(x % Len(alph)) + 1]

\* GlyphEncoder.bytes_to_glyphs; base * base >= 256 for every alphabet the
\* constructor accepted, so hi < base.
bytes_to_glyphs(alph, bs) ==
    IF Len(alph) * Len(alph) < 256 THEN [ok |-> FALSE, err |-> "small", glyphs |-> <<>>]
    ELSE [ok |-> TRUE, err |-> "none",
          glyphs |-> Join([i \in 1..Len(bs) |-> BytePair(alph, bs[i])], 1, Len(bs))]

\* GlyphEncoder.glyphs_to_bytes: the bytes, or the ValueError of the first
\* pair that is refused: "odd" for an odd length, "unknown" for a character
\* that is no key of the index, "range" for a value above 255.
glyphs_to_bytes(alph, g) ==
    LET n        == Len(g) \div 2
        hi(i)    == EncIndex(alph, g[2 * i - 1])
        lo(i)    == EncIndex(alph, g[2 * i])
        value(i) == hi(i) * Len(alph) + lo(i)
        Unk(i)   == hi(i) = -1 \/ lo(i) = -1
        bad      == {i \in 1..n : Unk(i) \/ value(i) > 255}
    IN  IF Len(g) % 2 # 0 THEN [ok |-> FALSE, err |-> "odd", bytes |-> <<>>]
        ELSE IF bad # {}
             THEN [ok |-> FALSE, bytes |-> <<>>,
                   err |-> IF Unk(CHOOSE i \in bad : \A j \in bad : i <= j)
                           THEN "unknown" ELSE "range"]
        ELSE [ok |-> TRUE, err |-> "none", bytes |-> [i \in 1..n |-> value(i)]]

\* Sixteen one-character symbols, "0" to "f".
Hex16 == [i \in 1..MIN_ALPHABET |-> <<HexDigit(i - 1)>>]

\* The 111 glyphs as a list of one-character symbols: list(GLYPH_ALPHABET).
Glyphs111 == [i \in 1..ALPHABET_SIZE |-> <<GLYPH_ALPHABET[i]>>]

\* Alphabets handed to the constructor: sixteen and seventeen distinct
\* characters, the 111 glyphs, fifteen characters, sixteen symbols of which
\* two are the same character, and sixteen of which one has two characters.
Alphabets ==
    { Hex16,
      Append(Hex16, <<103>>),
      Glyphs111,
      SubSeq(Hex16, 1, MIN_ALPHABET - 1),
      [Hex16 EXCEPT ![2] = <<48>>],
      [Hex16 EXCEPT ![2] = <<49, 49>>] }

\* Strings handed to glyphs_to_bytes: over the first and the last symbol of
\* the 17-character alphabet and the letter "x", which none of the alphabets
\* has, and the strings handed to decode_glyphs_to_bytes.
EncoderInputs == SeqsUpTo({48, 103, 120}, MaxGlyphLen) \cup DecoderInputs

EncoderInit ==
    /\ epc = "new"
    /\ enc = <<>>
    /\ ereq = <<>>
    /\ eglyphs = <<>>
    /\ eout = [ok |-> FALSE, err |-> "none", bytes |-> <<>>]

\* enc = GlyphEncoder(alphabet=alph): __post_init__ refuses a short list.
Construct ==
    /\ epc = "new"
    /\ \E alph \in Alphabets :
        IF Len(alph) < MIN_ALPHABET
        THEN /\ epc' = "refused" /\ enc' = <<>>
        ELSE /\ epc' = "ready" /\ enc' = alph
    /\ UNCHANGED <<ereq, eglyphs, eout>>
    /\ UNCHANGED notEncoder

\* eglyphs = enc.bytes_to_glyphs(data)
BytesToGlyphs ==
    /\ epc = "ready"
    /\ \E bs \in CodecBytes :
        /\ ereq' = bs
        /\ eglyphs' = bytes_to_glyphs(enc, bs).glyphs
    /\ epc' = "encoded"
    /\ UNCHANGED <<enc, eout>>
    /\ UNCHANGED notEncoder

\* A glyph string that no encoder produced is about to be decoded.
ReceiveGlyphs ==
    /\ epc = "ready"
    /\ \E g \in EncoderInputs : eglyphs' = g
    /\ epc' = "received"
    /\ UNCHANGED <<enc, ereq, eout>>
    /\ UNCHANGED notEncoder

\* eout = enc.glyphs_to_bytes(eglyphs), or the ValueError it raises
GlyphsToBytes ==
    /\ epc \in {"encoded", "received"}
    /\ eout' = glyphs_to_bytes(enc, eglyphs)
    /\ epc' = IF epc = "encoded" THEN "back" ELSE "decoded"
    /\ UNCHANGED <<enc, ereq, eglyphs>>
    /\ UNCHANGED notEncoder

EncoderNext ==
    \/ Construct
    \/ BytesToGlyphs
    \/ ReceiveGlyphs
    \/ GlyphsToBytes

\* One session uses the functions of one of the two modules.
GlyphNext ==
    \/ (epc = "new" /\ AlgebraNext)
    \/ (xop = "none" /\ EncoderNext)

\* ------------------------------------------------------------------------
\* rehydration_sigil: capture the state files into a sigil, apply one back.
\* ------------------------------------------------------------------------

\* The state keys and the file of each.
STATE_FILES ==
    [agi_ledger |-> "agi_ledger.json", skill_registry |-> "skill_registry.json",
     self_model |-> "self_model.json", world_model |-> "world_model.json",
     forecast_model |-> "forecast_model.json",
     alignment_monitor |-> "alignment_monitor.json",
     agent_memory |-> "agent_memory.json", agent_chat_log |-> "agent_chat_log.json",
     reasoning_runtime_log |-> "reasoning_runtime_log.json",
     introspection_log |-> "introspection_log.json",
     agent_consensus_log |-> "agent_consensus_log.json",
     agent_output_log |-> "agent_output_log.json"]

\* The header of a rehydration sigil (its glyphs written in ASCII here).
SIGIL_MAGIC == "[alembic $ Sigma_rehydrate::SigilAGI_Cluster_v1 ]"

SIGIL_VERSION == "1.0.0"

\* Python's None, which is also what JSON's null loads as.
None == [shape |-> "null"]

\* A JSON number.
JsonInt(n) == [shape |-> "int", num |-> n]

\* A file: one that is not there, one whose text is not JSON, or the JSON text
\* of a value.
NoSuchFile == [kind |-> "absent", value |-> None]

NotJson == [kind |-> "broken", value |-> None]

\* json.dump(payload, f): the file holds the JSON text of the payload.
json_dump(payload) == [kind |-> "json", value |-> payload]

\* _safe_read_json(path): the value the file's JSON text stands for; None for
\* no file and for a text that does not parse.
_safe_read_json(file) ==
    IF file.kind = "json" THEN file.value ELSE None

\* _safe_write_json(path, payload) on the files d of a directory: the file is
\* rewritten; an open that fails is reported on stderr and nothing is written.
_safe_write_json(d, can_open, path, payload) ==
    IF can_open THEN [d EXCEPT ![path] = json_dump(payload)] ELSE d

\* The file names of STATE_FILES.
StateFileNames == {STATE_FILES[k] : k \in DOMAIN STATE_FILES}

\* capture_state() on the files d of the root: the payload of every key whose
\* file reads as something other than None.
capture_state(d) ==
    LET present == {k \in DOMAIN STATE_FILES : _safe_read_json(d[STATE_FILES[k]]) # None}
    IN  [k \in present |-> _safe_read_json(d[STATE_FILES[k]])]

\* compute_checksum(state): the SHA-256 of the state block written with its
\* keys sorted.  The digest is taken to be free of collisions, so it stands
\* for the block it was computed from.
compute_checksum(blk) == [sha256 |-> blk]

\* create_sigil(), the clock reading t.
create_sigil(d, t) ==
    [magic |-> SIGIL_MAGIC, version |-> SIGIL_VERSION, created_at |-> t,
     source_root |-> "ROOT", state |-> capture_state(d),
     checksum |-> compute_checksum(capture_state(d))]

\* The keys of a sigil's JSON object.
SigilFields == {"magic", "version", "created_at", "source_root", "state", "checksum"}

\* save_sigil(sigil, out_path): the file holds the object of all six fields.
save_sigil(sg) ==
    json_dump([fields |-> SigilFields, shape |-> "dict", magic |-> sg.magic,
               version |-> sg.version, created_at |-> sg.created_at,
               source_root |-> sg.source_root, state |-> sg.state,
               checksum |-> sg.checksum])

NoSigil ==
    [magic |-> "", version |-> "", created_at |-> 0, source_root |-> "",
     state |-> <<>>, checksum |-> compute_checksum(<<>>)]

NoLoad == [ok |-> FALSE, err |-> "none", sigil |-> NoSigil]

\* load_sigil(path): ValueError for a file that does not read, for another
\* magic and for another checksum; raw.get raises AttributeError on a JSON
\* value that is not an object, from_dict raises KeyError for a missing key.
load_sigil(file) ==
    LET doc == _safe_read_json(file)
    IN  IF doc = None THEN [NoLoad EXCEPT !.err = "ValueError"]
        ELSE IF doc.shape # "dict" THEN [NoLoad EXCEPT !.err = "AttributeError"]
        ELSE IF "magic" \notin doc.fields \/ doc.magic # SIGIL_MAGIC
        THEN [NoLoad EXCEPT !.err = "ValueError"]
        ELSE IF {"version", "created_at", "state", "checksum"} \ doc.fields # {}
        THEN [NoLoad EXCEPT !.err = "KeyError"]
        ELSE IF compute_checksum(doc.state) # doc.checksum
        THEN [NoLoad EXCEPT !.err = "ValueError"]
        ELSE [ok |-> TRUE, err |-> "none",
              sigil |-> [magic |-> doc.magic, version |-> doc.version,
                         created_at |-> doc.created_at,
                         source_root |-> IF "source_root" \in doc.fields
                                         THEN doc.source_root ELSE "",
                         state |-> doc.state, checksum |-> doc.checksum]]

\* apply_state(sigil, target_root) on the files d of the root: the payload of
\* every key of STATE_FILES is written to the key's file, every other key is
\* skipped.  The keys' files are distinct, so the order of the writes is not
\* seen in the result.
RECURSIVE apply_keys(_, _, _, _)
apply_keys(d, can_open, blk, todo) ==
    IF todo = {} THEN d
    ELSE LET key == CHOOSE k \in todo : TRUE
         IN  apply_keys(IF key \in DOMAIN STATE_FILES
                        THEN _safe_write_json(d, can_open, STATE_FILES[key], blk[key])
                        ELSE d,
                        can_open, blk, todo \ {key})

apply_state(sg, d, can_open) == apply_keys(d, can_open, sg.state, DOMAIN sg.state)

\* The keys of the sampled state blocks (the last is not a key of
\* STATE_FILES), their payloads, and the blocks.
KeySamples == {"agi_ledger", "self_model", "dream_log"}

Payloads == {None, JsonInt(1)}

StateBlocks == UNION {[ksub -> Payloads] : ksub \in SUBSET KeySamples}

\* The sampled roots: two of the state files, each absent, not JSON, or
\* holding a value; the other state files absent.
FileStates == {NoSuchFile, NotJson, json_dump(None), json_dump(JsonInt(1)), json_dump(JsonInt(2))}

RootDirs ==
    {[f \in StateFileNames |->
        IF f = "agi_ledger.json" THEN x
        ELSE IF f = "world_model.json" THEN y ELSE NoSuchFile] : x, y \in FileStates}

EmptyRoot == [f \in StateFileNames |-> NoSuchFile]

\* The sampled sigil files: no file, text that is not JSON, null, a JSON
\* list, and objects with one field missing or none, the magic right or not,
\* the checksum that of the state block or of another block.
FieldSets == {SigilFields} \cup {SigilFields \ {fld} : fld \in SigilFields}

SigilObjects ==
    {[fields |-> fs, shape |-> "dict", magic |-> mg, version |-> SIGIL_VERSION,
      created_at |-> 0, source_root |-> "ROOT", state |-> blk,
      checksum |-> IF own THEN compute_checksum(blk)
                   ELSE IF blk = <<>> THEN compute_checksum([agi_ledger |-> JsonInt(1)])
                   ELSE compute_checksum(<<>>)] :
        fs \in FieldSets, mg \in {SIGIL_MAGIC, "GLYPHNOTES"}, blk \in StateBlocks,
        own \in BOOLEAN}

JsonList == [shape |-> "list"]

SigilFiles ==
    {NoSuchFile, NotJson, json_dump(None), json_dump(JsonList)}
        \cup {json_dump(o) : o \in SigilObjects}

RehydInit ==
    /\ rcmd = "none"
    /\ sigil_path = NoSuchFile
    /\ root_ok = TRUE
    /\ root_before = EmptyRoot
    /\ root_files = EmptyRoot
    /\ rres = NoLoad

\* main, "capture": the sigil of the root's state files is saved.
CmdCapture ==
    /\ rcmd = "none"
    /\ \E d \in RootDirs, t \in 0..1 :
        /\ root_before' = d
        /\ root_files' = d
        /\ sigil_path' = save_sigil(create_sigil(d, t))
        /\ rres' = [NoLoad EXCEPT !.ok = TRUE, !.sigil = create_sigil(d, t)]
    /\ root_ok' = TRUE
    /\ rcmd' = "capture"
    /\ UNCHANGED notRehyd

\* main, "apply", on the sigil file sf and the root d: sys.exit(1) when
\* load_sigil raises, apply_state otherwise.
Apply(sf, d, can_open) ==
    /\ sigil_path' = sf
    /\ root_ok' = can_open
    /\ root_before' = d
    /\ rres' = load_sigil(sf)
    /\ root_files' = IF load_sigil(sf).ok
                     THEN apply_state(load_sigil(sf).sigil, d, can_open)
                     ELSE d
    /\ rcmd' = "apply"
    /\ UNCHANGED notRehyd

\* The apply command on a sigil file as found.
CmdApply ==
    /\ rcmd = "none"
    /\ \E sf \in SigilFiles, d \in RootDirs, can_open \in BOOLEAN : Apply(sf, d, can_open)

\* The apply command on the sigil file that a capture has just written, on
\* another root.
CmdApplyCaptured ==
    /\ rcmd = "capture"
    /\ \E d \in RootDirs, can_open \in BOOLEAN : Apply(sigil_path, d, can_open)

RehydNext ==
    \/ CmdCapture
    \/ CmdApply
    \/ CmdApplyCaptured

\* ------------------------------------------------------------------------
\* GlyphNotes: the notes DB.
\* ------------------------------------------------------------------------

\* GlyphEncoder.text_to_glyphs
text_to_glyphs(alph, text) == bytes_to_glyphs(alph, utf8_encode(text)).glyphs

\* GlyphEncoder.glyphs_to_text: the text, or the ValueError of glyphs_to_bytes,
\* or the UnicodeDecodeError of bytes that are not UTF-8.
glyphs_to_text(alph, g) ==
    LET d == glyphs_to_bytes(alph, g)
        t == utf8_decode(d.bytes)
    IN  IF ~d.ok THEN [ok |-> FALSE, err |-> d.err, text |-> <<>>]
        ELSE IF ~t.ok THEN [ok |-> FALSE, err |-> "utf-8", text |-> <<>>]
        ELSE [ok |-> TRUE, err |-> "none", text |-> t.text]

\* GlyphNote(id=..., name=..., lang="und", tags=[], created_at=now,
\* updated_at=now, text=..., glyphs=...)
GlyphNote(id, nm, text, g, now) ==
    [id |-> id, name |-> nm, lang |-> "und", tags |-> <<>>, created_at |-> now,
     updated_at |-> now, text |-> text, glyphs |-> g]

\* The DB that load_db makes when the file is not there or does not load.
NewDB(now) ==
    [meta |-> [created_at |-> now, updated_at |-> now, version |-> "1.0.0"],
     entries |-> <<>>]

\* save_db(db): the file is replaced by the JSON text of the DB, its
\* meta.updated_at set to the clock.
save_db(db, now) ==
    json_dump([meta |-> [db.meta EXCEPT !.updated_at = now], entries |-> db.entries])

\* load_db(): the DB of the file; a new, empty DB when the file is not there
\* or raises while it is read.
load_db(file, now) ==
    IF file.kind = "json" THEN file.value ELSE NewDB(now)

\* add_note(encoder, name, text): the note, with uuid4 and the clock as given.
add_note(alph, nm, text, id, now) == GlyphNote(id, nm, text, text_to_glyphs(alph, text), now)

\* add_note's file: the DB loaded, the note appended, the DB saved.
add_note_file(file, note, now) ==
    save_db([load_db(file, now) EXCEPT !.entries = Append(@, note)], now)

MaxNotes == 2

\* The texts of the notes: empty, NUL, "a", e with acute accent.
NoteTexts == {<<>>, <<0>>, <<97>>, <<233>>}

\* The DB file before the first add_note: none, one that is not JSON, an
\* empty DB, and a DB with one note written with the hexadecimal alphabet.
OldNote == GlyphNote(0, "old", <<97>>, text_to_glyphs(Hex16, <<97>>), 0)

DBFiles ==
    {NoSuchFile, NotJson, save_db(NewDB(0), 0),
     save_db([NewDB(0) EXCEPT !.entries = <<OldNote>>], 0)}

NotesInit ==
    /\ npc = "closed"
    /\ nenc = <<>>
    /\ db_path = NoSuchFile
    /\ db_first = <<>>
    /\ notes_added = <<>>

\* main: encoder = GlyphEncoder(alphabet=load_alphabet()), for an alphabet
\* file that load_alphabet and the constructor accept, and the DB file as
\* it is found.
NotesOpen ==
    /\ npc = "closed"
    /\ \E alph \in {al \in Alphabets : Len(al) >= MIN_ALPHABET}, file \in DBFiles :
        /\ nenc' = alph
        /\ db_path' = file
        /\ db_first' = load_db(file, 0).entries
    /\ npc' = "open"
    /\ UNCHANGED notes_added
    /\ UNCHANGED notNotes

\* note = add_note(encoder, "n", text): uuid4 gives an id that no earlier
\* note has, the clock has advanced.
AddNote ==
    /\ npc = "open"
    /\ Len(notes_added) < MaxNotes
    /\ \E text \in NoteTexts :
        LET now  == Len(notes_added) + 1
            note == add_note(nenc, "n", text, now, now)
        IN  /\ db_path' = add_note_file(db_path, note, now)
            /\ notes_added' = Append(notes_added, note)
    /\ UNCHANGED <<npc, nenc, db_first>>
    /\ UNCHANGED notNotes

NotesNext ==
    \/ NotesOpen
    \/ AddNote

\* ------------------------------------------------------------------------
\* Specifications
\* ------------------------------------------------------------------------

Init ==
    /\ CapInit /\ CodecInit /\ WideInit /\ SigilInit /\ AlgebraInit /\ EncoderInit
    /\ LookupInit /\ RehydInit /\ NotesInit

Next == CapNext

\* The container: encode, then decode_superparagraph.
Spec == Init /\ [][Next]_vars

\* The container, with the frames whose metadata is very long.
WideNext == CapNext \/ WidePage \/ WideLeaf

WideSpec == Init /\ [][WideNext]_vars

\* The glyph codec.
CodecSpec == Init /\ [][CodecNext]_vars

\* The sigil assigner: the encode command.
SigilSpec == Init /\ [][SigilNext]_vars

\* The commands that read a sigil lexicon file.
LookupSpec == Init /\ [][LookupNext]_vars

\* The glyph algebra and decoder, and the GlyphEncoder of GlyphNotes.
GlyphSpec == Init /\ [][GlyphNext]_vars

\* The rehydration sigil commands.
RehydSpec == Init /\ [][RehydNext]_vars

\* The notes DB: add_note after add_note with one encoder.
NotesSpec == Init /\ [][NotesNext]_vars

\* ------------------------------------------------------------------------
\* Properties of the container (Spec, WideSpec)
\* ------------------------------------------------------------------------

\* An encoder's line as it was produced: nothing inserted, no bit flipped.
Untouched == edits = 0

\* C1: for every superparagraph record sp and every title, whatever characters
\* the title contains, encode_superparagraph(sp, title) is a single line and
\* decode_superparagraph returns from it a record equal to sp.
C1_SuperparagraphRoundTrip ==
    (call.op = "superparagraph" /\ Untouched) =>
        /\ \A i \in 1..Len(line) : line[i] \notin {10, 13}
        /\ pc # "raised"
        /\ pc = "done" => result = JObj(call.sp)

\* The line of a record titled with the one character U+2801 was decoded as
\* produced, and decode_superparagraph raised.
C1_Witness ==
    /\ call.op = "superparagraph"
    /\ call.title = <<10241>>
    /\ Untouched
    /\ pc = "raised"
    /\ err = "V3 CRC mismatch"
\* The stage s of decode_superparagraph has been executed.
Ran(s) == \E i \in 1..Len(ran) : ran[i] = s

\* C5: for every title, extra metadata and inner envelope E, parsing the page
\* frame built by encode_v3_page(title, E) yields an inner_length equal to
\* len(E) and an inner slice equal to E byte for byte.
C5_PageInnerRecovered ==
    /\ (call.op \in {"superparagraph", "leaf_page"} /\ Untouched /\ Ran("parse3")) =>
            /\ inner_len = Len(call.v2_framed)
            /\ framed_v2 = call.v2_framed
    /\ wide.op = "page" =>
            /\ wide.stage = "parsed"
            /\ wide.got = wide.sent
            /\ wide.same

\* A page whose title has 65536 characters was built and parsed, and the inner
\* length parsed is not the length of the envelope put in.
C5_Witness ==
    /\ wide.op = "page"
    /\ wide.n = U16_RANGE
    /\ wide.stage = "parsed"
    /\ wide.got # wide.sent

\* C6: for every metadata map and list of blocks, whatever the size of the
\* serialized metadata and of the payloads, decoding the untampered envelope of
\* encode_v2_leaf yields as many blocks, in the same order, each payload
\* identical to the one encoded.
C6_LeafBlocksRecovered ==
    /\ (call.op \in {"superparagraph", "leaf_page"} /\ Untouched /\ pc = "return") =>
            /\ Len(blocks) = Len(call.blocks)
            /\ \A i \in 1..Len(blocks) :
                /\ blocks[i].name = call.blocks[i].name
                /\ blocks[i].payload = call.blocks[i].payload
    /\ wide.op = "leaf" =>
            /\ wide.stage \in {"break", "end"}
            /\ wide.got = wide.sent
            /\ wide.same

\* A leaf with no block and a metadata string of 65536 characters was encoded
\* and scanned, and the scan produced a block.
C6_Witness ==
    /\ wide.op = "leaf"
    /\ wide.n = U16_RANGE
    /\ wide.sent = 0
    /\ wide.got = 1

\* C7: decoding a leaf frame recovers the leaf metadata map and, for every
\* block, its dims (over the whole u16 range), value_min and value_max exactly
\* as they were given to the encoder.  The decoder binds the metadata to no
\* variable (it only skips it) and keeps no numeric field in its blocks, so the
\* formula states the property for what it does read: the ndim, vmin and vmax
\* locals of each pass of the loop.
C7_LeafFieldsRecovered ==
    (call.op = "leaf_page" /\ Untouched /\ pc = "return") =>
        /\ Len(reads) = Len(call.blocks)
        /\ \A i \in 1..Len(reads) :
            /\ reads[i].ndim = call.blocks[i].ndim
            /\ reads[i].vmin = call.blocks[i].vmin
            /\ reads[i].vmax = call.blocks[i].vmax

\* A block with dims 65535 and value_max 2^24 + 1 was encoded and scanned: dims
\* came back, value_max came back as 2^24.
C7_Witness ==
    /\ call.op = "leaf_page"
    /\ Untouched
    /\ pc = "return"
    /\ Len(reads) = 1
    /\ call.blocks[1].ndim = 65535
    /\ reads[1].ndim = 65535
    /\ call.blocks[1].vmax = <<16777217, 0>>
    /\ reads[1].vmax = <<1, 24>>

\* C8: for every byte sequence B, to_braille(B) has len(B) characters and
\* from_braille returns B from it, and still returns exactly B from every
\* string made by inserting characters outside U+2800..U+28FF anywhere into
\* to_braille(B).
C8_BrailleRoundTrip ==
    call.op = "armor" =>
        /\ pc # "idle" => Len(line) = Len(call.bytes) + edits
        /\ Ran("from_braille") => b = call.bytes

\* The bytes 00 FF were armored, U+2900 was inserted into the armor, and
\* from_braille returned 00 FF.
C8_Witness ==
    /\ call.op = "armor"
    /\ call.bytes = <<0, 255>>
    /\ edits = 1
    /\ \E i \in 1..Len(line) : line[i] = 10496
    /\ Ran("from_braille")
    /\ b = <<0, 255>>

\* The stages in the order of the source; the block scan repeats.
StageRank(s) ==
    CASE s = "from_braille" -> 0
      [] s = "crc3"   -> 1
      [] s = "unzip3" -> 2
      [] s = "magic3" -> 3
      [] s = "parse3" -> 4
      [] s = "crc2"   -> 5
      [] s = "unzip2" -> 6
      [] s = "magic2" -> 7
      [] s = "scan"   -> 8
      [] s = "return" -> 9

\* The stage a ValueError message belongs to.
ErrStage(e) ==
    CASE e = "V3 CRC mismatch" -> "crc3"
      [] e = "Bad V3 MAGIC or version" -> "magic3"
      [] e = "V2 CRC mismatch" -> "crc2"
      [] e = "Bad V2 MAGIC or version" -> "magic2"
      [] OTHER -> "any"

CrcMatches(env) == crc32(DropLast4(env)) = int_from_bytes(Last4(env))

\* C9: decode_superparagraph runs its checks in the order page CRC, page
\* decompress, page magic/version, leaf CRC, leaf decompress, leaf
\* magic/version, block scan; the first check that fails raises and no later
\* stage runs; and an envelope whose trailing 4-byte CRC does not match its
\* compressed bytes is rejected with a checksum error before any decompression.
C9_StagesInOrder ==
    /\ Len(ran) > 0 => ran[1] = "from_braille"
    /\ \A i \in 1..(Len(ran) - 1) :
            \/ StageRank(ran[i + 1]) = StageRank(ran[i]) + 1
            \/ ran[i] = "scan" /\ ran[i + 1] = "scan"
    /\ err # "none" <=> pc = "raised"
    /\ pc = "raised" => ErrStage(err) \in {"any", ran[Len(ran)]}
    /\ (Ran("crc3") /\ ~CrcMatches(b)) =>
            /\ pc = "raised"
            /\ err = "V3 CRC mismatch"
            /\ ~Ran("unzip3")
    /\ (Ran("crc2") /\ ~CrcMatches(framed_v2)) =>
            /\ pc = "raised"
            /\ err = "V2 CRC mismatch"
            /\ ~Ran("unzip2")

\* A page passed its three checks, the leaf inside had a wrong CRC, and the
\* decoder raised there, before decompressing the leaf.
C9_Witness ==
    /\ pc = "raised"
    /\ err = "V2 CRC mismatch"
    /\ ran = <<"from_braille", "crc3", "unzip3", "magic3", "parse3", "crc2">>
    /\ v2_raw = <<>>

\* C10: when the decompressed leaf frame ends without a zero terminator tag,
\* at whatever byte offset the buffer runs out, between blocks or inside a
\* block, the block scan stops and returns the blocks parsed so far without
\* raising an error.
C10_TruncatedScanStops ==
    ~(pc = "raised" /\ Len(ran) > 0 /\ ran[Len(ran)] = "scan")

\* A leaf cut right after the type tag of its second block was scanned: one
\* block was read, then the scan raised IndexError.
C10_Witness ==
    /\ call.op = "foreign"
    /\ pc = "raised"
    /\ ran[Len(ran)] = "scan"
    /\ err = "IndexError"
    /\ Len(blocks) = 1

\* ------------------------------------------------------------------------
\* Properties of the glyph codec (CodecSpec)
\* ------------------------------------------------------------------------

\* C2: in the 111-symbol codec every byte sequence B, the empty one included,
\* is encoded into exactly 2*len(B) symbols and decode_glyphs_to_bytes returns
\* B from them; and decode_glyphs_to_text returns T from
\* encode_text_to_glyphs(T) for every text T.
C2_CodecRoundTrip ==
    /\ (gin.op = "bytes" /\ gpc # "idle") => Len(glyphs) = 2 * Len(gin.data)
    /\ (gin.op = "bytes" /\ gpc = "back") => (gout.ok /\ gout.bytes = gin.data)
    /\ (gin.op = "text" /\ gpc = "back") => (gout.ok /\ gout.text = gin.text)

\* The bytes FF 00 went through the codec: four symbols, and the bytes back.
C2_Witness ==
    /\ gpc = "back"
    /\ gin.op = "bytes"
    /\ gin.data = <<255, 0>>
    /\ Len(glyphs) = 4
    /\ gout.ok
    /\ gout.bytes = <<255, 0>>

\* C3: for every text T, the empty text included, and every key K of any
\* length relative to T, glyph_inner_dialog_decode(glyph_inner_dialog(T, K), K)
\* returns T.
C3_DialogRoundTrip ==
    (gin.op = "dialog" /\ gpc = "back") => (gout.ok /\ gout.text = gin.text)

\* A text was mixed with a key whose encoding is longer than the text's, and
\* decoded with that key.
C3_Witness ==
    /\ gpc = "back"
    /\ gin.op = "dialog"
    /\ glen(encode_text_to_glyphs(gin.key)) > glen(encode_text_to_glyphs(gin.text))
    /\ ~(gout.ok /\ gout.text = gin.text)

\* C4: for every text T and key K, glyph_inner_dialog(T, K) has as many
\* glyphs as glyph_inner_dialog(T, None): mixing with a key never changes the
\* glyph length of the encoded text.
C4_MixKeepsLength ==
    (gin.op = "dialog" /\ gpc # "idle") =>
        glen(glyphs) = glen(glyph_inner_dialog(gin.text, <<>>))

\* A text was mixed with a key and came out with more glyphs than its own
\* encoding has.
C4_Witness ==
    /\ gin.op = "dialog"
    /\ gpc = "glyphs"
    /\ gin.key # <<>>
    /\ glen(glyphs) > 2 * Len(utf8_encode(gin.text))

\* ------------------------------------------------------------------------
\* Properties of the sigil assigner (SigilSpec)
\* ------------------------------------------------------------------------

\* assign_sigils returned its lexicon (and cmd_encode may have saved it).
Assigned == spc \in {"returned", "saved"}

\* The positions (0-based) of the well-formed entries of the input lexicon:
\* a word that is not blank, and glyphs.
WellFormed ==
    {i \in 0..(Len(worddef_data.entries) - 1) :
        /\ strip(worddef_data.entries[i + 1].word) # <<>>
        /\ worddef_data.entries[i + 1].glyphs # <<>>}

\* C11: when assign_sigils succeeds, the sigils of the returned entries are
\* single characters, pairwise distinct, and the by_sigil index of
\* _build_index_maps maps the sigil of the i-th returned entry to that entry.
C11_SigilsDistinctAndIndexed ==
    Assigned =>
        \A i \in 1..Len(lex.entries) :
            /\ Len(lex.entries[i].sigil) = 1
            /\ \A j \in 1..Len(lex.entries) :
                    lex.entries[i].sigil = lex.entries[j].sigil => i = j
            /\ by_sigil(lex.entries, lex.entries[i].sigil[1]) = i
            /\ lex.entries[by_sigil(lex.entries, lex.entries[i].sigil[1])].word
                    = lex.entries[i].word

\* A lexicon of three entries was returned, two of them with the same word.
C11_Witness ==
    /\ spc = "returned"
    /\ Len(lex.entries) = 3
    /\ lex.entries[1].word = lex.entries[3].word
    /\ lex.entries[1].word # lex.entries[2].word

C13_AllOrNothing ==
    /\ [](spc = "raised" => (lex = NoLex /\ out_file = NoFile))
    /\ [][spc # "idle" => worddef_data' = worddef_data]_vars

\* assign_sigils raised in its loop after it had accepted an entry.
C13_Witness ==
    /\ spc = "raised"
    /\ serr = "chr"
    /\ sigil_entries # <<>>
    /\ lex = NoLex
    /\ out_file = NoFile

\* C14: the returned entries are the well-formed entries of the input, in
\* input order; each has for index its position in the input list and for
\* sigil the character base_codepoint + index, so a skipped entry leaves a gap
\* in the code points and does not shift the later ones.
C14_IndexIsInputPosition ==
    Assigned =>
        /\ Len(lex.entries) = Cardinality(WellFormed)
        /\ \A k \in 1..Len(lex.entries) :
            /\ lex.entries[k].index \in WellFormed
            /\ lex.entries[k].index + 1 - k
                    = Cardinality({i \in 0..lex.entries[k].index : i \notin WellFormed})
            /\ lex.entries[k].sigil = <<sargs.base_codepoint + lex.entries[k].index>>
            /\ lex.entries[k].word
                    = strip(worddef_data.entries[lex.entries[k].index + 1].word)
            /\ lex.entries[k].glyphs = worddef_data.entries[lex.entries[k].index + 1].glyphs

\* Of three entries the middle one was skipped: the entries returned have the
\* indices 0 and 2 and the code points base_codepoint and base_codepoint + 2.
C14_Witness ==
    /\ spc = "saved"
    /\ Len(worddef_data.entries) = 3
    /\ Len(lex.entries) = 2
    /\ lex.entries[1].index = 0
    /\ lex.entries[2].index = 2
    /\ lex.entries[2].sigil = <<sargs.base_codepoint + 2>>
    /\ out_file.entries = lex.entries

\* C30: whenever assign_sigils returns, every assigned code point c has
\* base_codepoint <= c < base_codepoint + max_sigils, in the sigil character
\* and in the "U+XXXX" text of the entry.
C30_SigilsInReservedRange ==
    spc \in {"returned", "saved"} =>
        \A i \in 1..Len(lex.entries) :
            /\ Len(lex.entries[i].sigil) = 1
            /\ sargs.base_codepoint <= lex.entries[i].sigil[1]
            /\ lex.entries[i].sigil[1] < sargs.base_codepoint + sargs.max_sigils
            /\ int16(SubSeq(lex.entries[i].codepoint, 3, Len(lex.entries[i].codepoint)))
                    = lex.entries[i].sigil[1]

\* assign_sigils returned for as many entries as max_sigils allows: the last
\* sigil is the last code point of the reserved range.
C30_Witness ==
    /\ spc = "returned"
    /\ sargs.max_sigils = MaxSigils
    /\ Len(worddef_data.entries) = sargs.max_sigils
    /\ Len(lex.entries) >= 1
    /\ lex.entries[Len(lex.entries)].sigil = <<sargs.base_codepoint + sargs.max_sigils - 1>>

\* ------------------------------------------------------------------------
\* Properties of the glyph algebra, the decoder and GlyphEncoder (GlyphSpec)
\* ------------------------------------------------------------------------

\* C15: decoding glyphs to bytes fails with an unknown-symbol error whenever
\* the input has a symbol that is not in the alphabet, for
\* decode_glyphs_to_bytes of the 111-glyph codec and for
\* GlyphEncoder.glyphs_to_bytes.
C15_UnknownSymbolRejected ==
    /\ (xop = "decode" /\ \E i \in 1..Len(xa) : ~InAlphabet(xa[i])) =>
            (~xres.ok /\ xres.err = "unknown")
    /\ (epc = "decoded" /\ \E i \in 1..Len(eglyphs) : EncIndex(enc, eglyphs[i]) = -1) =>
            (~eout.ok /\ eout.err = "unknown")

\* decode_glyphs_to_bytes returned a byte for a string of three characters of
\* which one is the letter "x".
C15_Witness ==
    /\ xop = "decode"
    /\ Len(xa) = 3
    /\ xa[2] = 120
    /\ xres.ok
    /\ Len(xres.bytes) = 1

\* C16: decode_glyphs_to_bytes fails when the normalized input has an odd
\* length and when one of its pairs (hi, lo) has hi * 111 + lo >= 256; it
\* returns no bytes then, and every byte it returns is in 0..255.
C16_OddOrWidePairRejected ==
    xop = "decode" =>
        LET A       == normalize_glyphstring(xa)
            code(i) == GLYPH_TO_INDEX(A[2 * i - 1]) * 111 + GLYPH_TO_INDEX(A[2 * i])
        IN  /\ Len(A) % 2 = 1 => (~xres.ok /\ xres.bytes = <<>>)
            /\ (Len(A) % 2 = 0 /\ \E i \in 1..(Len(A) \div 2) : code(i) >= 256) =>
                    (~xres.ok /\ xres.bytes = <<>>)
            /\ \A i \in 1..Len(xres.bytes) : xres.bytes[i] \in 0..255
            /\ xres.ok => Len(xres.bytes) = Len(A) \div 2

\* Two pairs were decoded, the first the byte 255 and the second of code 256:
\* the decoder raised.
C16_Witness ==
    /\ xop = "decode"
    /\ xa = <<INDEX_TO_GLYPH(2), INDEX_TO_GLYPH(33), INDEX_TO_GLYPH(2), INDEX_TO_GLYPH(34)>>
    /\ ~xres.ok
    /\ xres.err = "pair"

\* The round trip was made with an alphabet the constructor accepted.
RoundTrip == epc = "back"

\* C17: for every alphabet the GlyphEncoder constructor accepts and every byte
\* sequence B, bytes_to_glyphs(B) has 2 * len(B) characters and glyphs_to_bytes
\* returns B from it.
C17_EncoderRoundTrip ==
    /\ epc \in {"encoded", "back"} => Len(eglyphs) = 2 * Len(ereq)
    /\ RoundTrip => (eout.ok /\ eout.bytes = ereq)

\* With an alphabet in which one character occurs twice, glyphs_to_bytes
\* returned other bytes than the ones encoded.
C17_Witness ==
    /\ RoundTrip
    /\ Len(enc) = MIN_ALPHABET
    /\ enc[1] = enc[2]
    /\ eout.ok
    /\ eout.bytes # ereq

\* C18: for normalized operands A and B that are both non-empty, gadd and gsub
\* have length N = max(|A|, |B|) and their k-th symbol has the index
\* (idx(A[k mod |A|]) +/- idx(B[k mod |B|])) mod 111; with an empty operand
\* gadd returns the other one, gsub returns A when B is empty and the empty
\* string when A is empty.
C18_AddSubPointwise ==
    xop \in {"gadd", "gsub"} =>
        LET A    == normalize_glyphstring(xa)
            B    == normalize_glyphstring(xb)
            R    == xres.glyphs
            ia(k) == GLYPH_TO_INDEX(A[(k % Len(A)) + 1])
            ib(k) == GLYPH_TO_INDEX(B[(k % Len(B)) + 1])
        IN  IF A # <<>> /\ B # <<>>
            THEN /\ Len(R) = Max(Len(A), Len(B))
                 /\ \A k \in 0..(Len(R) - 1) :
                        /\ InAlphabet(R[k + 1])
                        /\ GLYPH_TO_INDEX(R[k + 1]) =
                             (IF xop = "gadd" THEN ia(k) + ib(k) ELSE ia(k) - ib(k) + 111) % 111
            ELSE IF xop = "gadd" THEN R = (IF A = <<>> THEN B ELSE A)
            ELSE R = (IF B = <<>> THEN A ELSE <<>>)

\* gsub of a two-glyph and a three-glyph operand, the difference of the first
\* indices below zero.
C18_Witness ==
    /\ xop = "gsub"
    /\ xa = <<INDEX_TO_GLYPH(1), INDEX_TO_GLYPH(110)>>
    /\ xb = <<INDEX_TO_GLYPH(110), INDEX_TO_GLYPH(1), INDEX_TO_GLYPH(1)>>
    /\ xres.glyphs = <<INDEX_TO_GLYPH(2), INDEX_TO_GLYPH(109), INDEX_TO_GLYPH(0)>>

\* C19: for every string s, ginv(ginv(s)) is normalize_glyphstring(s), and
\* ginv(s) has the length of normalize_glyphstring(s).
C19_InverseInvolution ==
    /\ xop = "ginv" => Len(xres.glyphs) = Len(normalize_glyphstring(xa))
    /\ xop = "ginv ginv" => xres.glyphs = normalize_glyphstring(xa)

\* ginv was applied twice to a string that has the letter "x" between two
\* glyphs.
C19_Witness ==
    /\ xop = "ginv ginv"
    /\ Len(xa) = 3
    /\ xa[2] = 120
    /\ xres.glyphs = <<xa[1], xa[3]>>
    /\ xa[1] # xa[3]

\* C20: gdist(a, b) is the number of positions k < N whose cyclically
\* repeated indices differ, divided by N, hence in [0, 1]; gdist(a, a) is 0 for
\* an a that normalizes to a non-empty string; gdist is 0 when both operands
\* normalize to the empty string and 1 when exactly one does.
C20_DistanceIsMismatchRatio ==
    xop = "gdist" =>
        LET A == normalize_glyphstring(xa)
            B == normalize_glyphstring(xb)
            N == Max(Len(A), Len(B))
            differ == {k \in 0..(N - 1) : GLYPH_TO_INDEX(A[(k % Len(A)) + 1])
                                            # GLYPH_TO_INDEX(B[(k % Len(B)) + 1])}
        IN  /\ xres.den > 0 /\ 0 <= xres.num /\ xres.num <= xres.den
            /\ (A # <<>> /\ B # <<>>) =>
                    xres.num * N = Cardinality(differ) * xres.den
            /\ (xa = xb /\ A # <<>>) => xres.num = 0
            /\ (A = <<>> /\ B = <<>>) => xres.num = 0
            /\ ((A = <<>>) # (B = <<>>)) => xres.num = xres.den

\* The distance of a two-glyph and a three-glyph operand is 1/3.
C20_Witness ==
    /\ xop = "gdist"
    /\ Len(normalize_glyphstring(xa)) = 2
    /\ Len(normalize_glyphstring(xb)) = 3
    /\ xres.num = 1
    /\ xres.den = 3

\* C21: fingerprint_glyphstring returns a fingerprint for every string and
\* never raises; its length is the normalized glyph length and, when the
\* normalized string has an odd length or a pair of code >= 256, its byte_crc
\* and entropy_est are 0.
C21_FingerprintTotal ==
    xop = "fingerprint" =>
        LET A       == normalize_glyphstring(xa)
            code(i) == GLYPH_TO_INDEX(A[2 * i - 1]) * 111 + GLYPH_TO_INDEX(A[2 * i])
        IN  /\ xres.ok
            /\ xres.fp.length = Len(A)
            /\ (Len(A) % 2 = 1 \/ \E i \in 1..(Len(A) \div 2) : code(i) >= 256) =>
                    (xres.fp.byte_crc = 0 /\ xres.fp.entropy_est = ZeroEntropy)

\* The fingerprint of two pairs of which the second has the code 256: the
\* glyph CRC is there, the byte fields are 0.
C21_Witness ==
    /\ xop = "fingerprint"
    /\ xa = <<INDEX_TO_GLYPH(0), INDEX_TO_GLYPH(2), INDEX_TO_GLYPH(2), INDEX_TO_GLYPH(34)>>
    /\ xres.ok
    /\ xres.fp.length = 4
    /\ xres.fp.glyph_crc # 0
    /\ xres.fp.byte_crc = 0
    /\ xres.fp.entropy_est = ZeroEntropy

\* C25: with GlyphEncoder built on the 111 glyphs the two codecs agree:
\* bytes_to_glyphs returns the glyphstring of encode_bytes_to_glyphs for every
\* byte sequence, and for a string of alphabet glyphs only glyphs_to_bytes
\* returns the bytes of decode_glyphs_to_bytes or both raise.
C25_CodecsAgree ==
    /\ (epc \in {"encoded", "back"} /\ enc = Glyphs111) =>
            eglyphs = encode_bytes_to_glyphs(ereq)
    /\ (epc = "decoded" /\ enc = Glyphs111 /\ \A i \in 1..Len(eglyphs) : InAlphabet(eglyphs[i])) =>
            /\ eout.ok = decode_glyphs_to_bytes(eglyphs).ok
            /\ eout.ok => eout.bytes = decode_glyphs_to_bytes(eglyphs).bytes

\* GlyphEncoder on the 111 glyphs refused two pairs of glyphs of which the
\* second has the code 256, as decode_glyphs_to_bytes does.
C25_Witness ==
    /\ epc = "decoded"
    /\ enc = Glyphs111
    /\ eglyphs = <<INDEX_TO_GLYPH(2), INDEX_TO_GLYPH(33), INDEX_TO_GLYPH(2), INDEX_TO_GLYPH(34)>>
    /\ ~eout.ok
    /\ eout.err = "range"
    /\ ~decode_glyphs_to_bytes(eglyphs).ok

\* C26: for non-empty normalized glyphstrings a and b with len(b) <= len(a),
\* gsub(gadd(a, b), b) is a: subtracting the operand that was added gives the
\* first operand back.
C26_SubUndoesAdd ==
    (/\ xop = "gadd gsub"
     /\ xa # <<>> /\ xb # <<>>
     /\ normalize_glyphstring(xa) = xa /\ normalize_glyphstring(xb) = xb
     /\ Len(xb) <= Len(xa)) =>
        xres.glyphs = xa

\* gsub(gadd(a, b), b) was computed for an a of three glyphs and a b of two
\* different glyphs, and is a.
C26_Witness ==
    /\ xop = "gadd gsub"
    /\ xa = <<INDEX_TO_GLYPH(110), INDEX_TO_GLYPH(1), INDEX_TO_GLYPH(110)>>
    /\ xb = <<INDEX_TO_GLYPH(110), INDEX_TO_GLYPH(1)>>
    /\ xres.glyphs = xa

\* C27: decoding is canonical: whenever decode_glyphs_to_bytes(s) returns,
\* encode_bytes_to_glyphs of the bytes it returned is normalize_glyphstring(s).
C27_DecodeCanonical ==
    xop = "decode encode" => xres.glyphs = normalize_glyphstring(xa)

\* The bytes 255 and 0 decoded from two pairs of glyphs with the letter "x"
\* absent, and encoded again to the same four glyphs.
C27_Witness ==
    /\ xop = "decode encode"
    /\ xa = <<INDEX_TO_GLYPH(2), INDEX_TO_GLYPH(33), INDEX_TO_GLYPH(0), INDEX_TO_GLYPH(0)>>
    /\ xres.bytes = <<255, 0>>
    /\ xres.glyphs = xa

\* ------------------------------------------------------------------------
\* Properties of the commands on a sigil lexicon file (LookupSpec)
\* ------------------------------------------------------------------------

\* C22: lookup by word and lookup by sigil are first-match: of several
\* entries with the word (or the sigil) asked for, the earliest of the list is
\* returned; a later duplicate is never returned and causes no error.
C22_FirstMatch ==
    lcmd = "decode" =>
        LET es == lfile.entries
            W  == {i \in 1..Len(es) : es[i].word = larg.word}
            S  == {i \in 1..Len(es) : es[i].sigil = larg.sigil}
        IN  /\ (larg.word # <<>> /\ W # {}) =>
                    (lres.ok /\ lres.entry \in W /\ \A j \in W : lres.entry <= j)
            /\ (larg.word = <<>> /\ S # {}) =>
                    (lres.ok /\ lres.entry \in S /\ \A j \in S : lres.entry <= j)
            /\ (larg.word # <<>> /\ W = {}) => ~lres.ok
            /\ (larg.word = <<>> /\ S = {}) => ~lres.ok

\* The word asked for is the word of the first and of the third entry of the
\* file, and the first was returned.
C22_Witness ==
    /\ lcmd = "decode"
    /\ Len(lfile.entries) = 3
    /\ lfile.entries[1].word = larg.word
    /\ lfile.entries[3].word = larg.word
    /\ lfile.entries[1].sigil # lfile.entries[3].sigil
    /\ lres.ok
    /\ lres.entry = 1

\* The words of the lexicon file, and its sigils (one character each).
IsWord(t) == \E i \in 1..Len(lfile.entries) : lfile.entries[i].word = t

IsSigil(c) == \E i \in 1..Len(lfile.entries) : lfile.entries[i].sigil = <<c>>

NotWord(t) == ~IsWord(t)

NotSigil(c) == ~IsSigil(c)

\* The number of whitespace-separated tokens of the --text given.
TokenCount ==
    Cardinality({i \in 1..Len(larg.text) :
                    /\ larg.text[i] # 32
                    /\ (i = 1 \/ larg.text[i - 1] = 32)})

\* C23 as stated: for every text, text-to-sigils gives without failing one
\* sigil per token that is a word and lists the other tokens as missing;
\* sigils-to-text does so per character; the hits and the misses together are
\* as many as the tokens (characters) of the input.
C23_TextLookupTotal ==
    /\ lcmd = "encode-text" =>
            (lres.ok /\ Len(lres.hits) + Len(lres.missing) = TokenCount)
    /\ lcmd = "decode-text" =>
            (lres.ok /\ Len(lres.hits) + Len(lres.missing) = Len(larg.text))

\* C23, for a text that has a token and a sigil string that has a character:
\* text-to-sigils gives, in token order, the sigil of every token that is a
\* word and lists the other tokens, in order, as missing; sigils-to-text gives
\* the word of every character that is a sigil and lists the other characters;
\* hits and misses together are as many as the tokens (characters). A text
\* without a token and an empty sigil string are refused.
C23_TextLookupNonEmpty ==
    /\ (lcmd = "encode-text" /\ TokenCount > 0) =>
            /\ lres.ok
            /\ Len(lres.hits) + Len(lres.missing) = TokenCount
            /\ lres.missing = SelectSeq(split(larg.text), NotWord)
            /\ Len(lres.hits) = Len(SelectSeq(split(larg.text), IsWord))
            /\ \A k \in 1..Len(lres.hits) :
                    \E i \in 1..Len(lfile.entries) :
                        /\ lfile.entries[i].word = SelectSeq(split(larg.text), IsWord)[k]
                        /\ lfile.entries[i].sigil = lres.hits[k]
                        /\ \A j \in 1..(i - 1) : lfile.entries[j].word # lfile.entries[i].word
            /\ lres.out = Join(lres.hits, 1, Len(lres.hits))
    /\ (lcmd = "decode-text" /\ larg.text # <<>>) =>
            /\ lres.ok
            /\ Len(lres.hits) + Len(lres.missing) = Len(larg.text)
            /\ Len(lres.hits) = Len(SelectSeq(larg.text, IsSigil))
            /\ \A k \in 1..Len(lres.missing) :
                    lres.missing[k] = <<SelectSeq(larg.text, NotSigil)[k]>>
            /\ \A k \in 1..Len(lres.hits) :
                    \E i \in 1..Len(lfile.entries) :
                        /\ lfile.entries[i].sigil = <<SelectSeq(larg.text, IsSigil)[k]>>
                        /\ lfile.entries[i].word = lres.hits[k]
                        /\ \A j \in 1..(i - 1) : lfile.entries[j].sigil # lfile.entries[i].sigil
    /\ (lcmd = "encode-text" /\ TokenCount = 0) => ~lres.ok
    /\ (lcmd = "decode-text" /\ larg.text = <<>>) => ~lres.ok

\* The text "a c": one sigil and one missing token.
C23_Witness ==
    /\ lcmd = "encode-text"
    /\ larg.text = <<97, 32, 99>>
    /\ lres.ok
    /\ Len(lres.hits) = 1
    /\ lres.missing = <<(<<99>>)>>
    /\ Len(lfile.entries) = 2

\* ------------------------------------------------------------------------
\* Properties of the rehydration sigil commands (RehydSpec)
\* ------------------------------------------------------------------------

\* The file is a JSON object with the sigil's magic and with the checksum of
\* its own state block.
ValidSigilFile(file) ==
    /\ file.kind = "json"
    /\ file.value # None
    /\ file.value.shape = "dict"
    /\ {"magic", "state", "checksum"} \subseteq file.value.fields
    /\ file.value.magic = SIGIL_MAGIC
    /\ file.value.checksum = compute_checksum(file.value.state)

\* C24: load_sigil returns a sigil only for a file whose magic is SIGIL_MAGIC
\* and whose stored checksum is compute_checksum of its state block; for any
\* other file it raises ValueError, and the apply command then writes no
\* state file at all.
C24_LoadValidatesElseValueError ==
    rcmd = "apply" =>
        /\ rres.ok => ValidSigilFile(sigil_path)
        /\ ~rres.ok => (rres.err = "ValueError" /\ root_files = root_before)

\* The apply command on a file with the magic and the checksum of its state
\* block but without "version": load_sigil raised KeyError.
C24_Witness ==
    /\ rcmd = "apply"
    /\ ValidSigilFile(sigil_path)
    /\ "version" \notin sigil_path.value.fields
    /\ DOMAIN sigil_path.value.state = {"agi_ledger"}
    /\ ~rres.ok
    /\ rres.err = "KeyError"
    /\ root_files = root_before

\* The keys of the loaded sigil that are keys of STATE_FILES.
KnownKeys == DOMAIN rres.sigil.state \cap DOMAIN STATE_FILES

\* C28: after apply_state(sigil, root) the file of every key of sigil.state
\* that is listed in STATE_FILES holds the key's payload, so that a following
\* capture_state returns it; the other keys are skipped, and the file of a
\* key that the sigil has not is left as it was.
C28_ApplyWritesExactlyListedKeys ==
    (rcmd = "apply" /\ rres.ok) =>
        /\ \A key \in KnownKeys :
            /\ root_files[STATE_FILES[key]] = json_dump(rres.sigil.state[key])
            /\ key \in DOMAIN capture_state(root_files)
            /\ capture_state(root_files)[key] = rres.sigil.state[key]
        /\ DOMAIN root_files = DOMAIN root_before
        /\ \A f \in DOMAIN root_files :
            (\A key \in KnownKeys : STATE_FILES[key] # f) => root_files[f] = root_before[f]

\* apply_state ran on a root where no file opens for writing: the sigil has
\* a payload for agi_ledger and agi_ledger.json is still not there.
C28_Witness ==
    /\ rcmd = "apply"
    /\ rres.ok
    /\ ~root_ok
    /\ "agi_ledger" \in DOMAIN rres.sigil.state
    /\ rres.sigil.state["agi_ledger"] = JsonInt(1)
    /\ root_files["agi_ledger.json"] = NoSuchFile
    /\ root_files = root_before

\* ------------------------------------------------------------------------
\* Properties of the notes DB (NotesSpec)
\* ------------------------------------------------------------------------

\* The notes of the persisted DB, as load_db reads them.
Persisted == load_db(db_path, 0).entries

\* C29: after any sequence of add_note calls with one encoder the persisted
\* DB holds every added note once, in the order added and behind the notes it
\* had before, none of them removed or altered, and for each added note
\* encoder.glyphs_to_text(note.glyphs) is note.text.
C29_NotesKeptAndReadable ==
    npc = "open" =>
        /\ Persisted = db_first \o notes_added
        /\ \A i \in 1..Len(notes_added) : \A j \in 1..Len(notes_added) :
                notes_added[i].id = notes_added[j].id => i = j
        /\ \A i \in 1..Len(notes_added) :
                /\ glyphs_to_text(nenc, notes_added[i].glyphs).ok
                /\ glyphs_to_text(nenc, notes_added[i].glyphs).text = notes_added[i].text

\* Two notes were added with an alphabet in which one character occurs
\* twice; both are in the DB, and the glyphs of the first, whose text is NUL,
\* read as another text.
C29_Witness ==
    /\ npc = "open"
    /\ nenc[1] = nenc[2]
    /\ Len(notes_added) = 2
    /\ Persisted = db_first \o notes_added
    /\ notes_added[1].text = <<0>>
    /\ glyphs_to_text(nenc, notes_added[1].glyphs).ok
    /\ glyphs_to_text(nenc, notes_added[1].glyphs).text # <<0>>

====
